---- MODULE Spec2Model ----
(***************************************************************************)
(* A model of the jsdb storage engine: the in-memory index (idMap,         *)
(* ridMap), the block registry, the sequence-numbered write protocol, the  *)
(* node storage backend with its synchronous and asynchronous append       *)
(* paths, recovery on open, close, and page compaction.                    *)
(*                                                                         *)
(* Engine:   src/internal/state.ts   (lines 1-574, the block engine)       *)
(* Storage:  src/unnamed/part_005    (lines 198-402, storage_node)         *)
(* Wiring:   src/unnamed/part_012    (openDb)                              *)
(* Compaction: src/internal/page.ts  (compactPage) with mergePageMaps of   *)
(*           src/internal/types.ts                                         *)
(***************************************************************************)
EXTENDS Integers, Sequences, FiniteSets, TLC

(***************************************************************************)
(* Bounds of the model.                                                    *)
(***************************************************************************)
\* set, delete and compactPage calls explored over the life of the directory
MaxOps == 3
\* reopen (close, then open) cycles explored
MaxOpens == 1
\* appends that may be in flight at once on the asynchronous path
MaxPending == 2
\* length, in UTF-16 units, of the long user string "w1000"
BigLen == 1000
\* length, in UTF-16 units, of the long accented user string "acutes"
AccentLen == 500
\* lines of a block file found in the directory at the first open
MaxDirLines == 2
\* block files, and lines in each, of a directory whose loads are merged
MaxMergeFiles == 3
MaxMergeLines == 1
\* characters of a file read by readLines, and the largest read buffer
MaxChars == 4
MaxBuffer == 3
\* compactPage calls explored
MaxCompactions == 1
\* Date.now() when the directory is first opened, in milliseconds
StartTime == 2000
\* the clock advances in steps of TickMs, MaxTicks times at most
TickMs == 500
MaxTicks == 2

(***************************************************************************)
(* Program constants.                                                      *)
(***************************************************************************)
\* createOptions: smallest maxBlockSize the options accept
MaxBlockSize == 1024
\* Operation.ItemSet / Operation.ItemDelete
ItemSet == 1
ItemDelete == 2
\* the asynchronous dataSyncDelay explored (createOptions default)
AsyncDelay == 1000

\* ids the callers use (non-empty strings, isValidId)
Keys == {"a", "b"}
\* user values of the field "name": "e_acute" is the one-character string
\* U+00E9 (1 UTF-16 unit, 2 UTF-8 bytes), "w1000" a string of BigLen ASCII
\* characters
Values == {"e_acute", "w1000"}
\* "acutes" is the string of AccentLen characters U+00E9: a record that is
\* about twice as long in the file as its String.length
LongValues == {"acutes"}
\* dataSyncDelay values explored: 0 (synchronous append) and the default
SyncDelays == {0, AsyncDelay}

VARIABLES
  opened,       \* DbState.opened
  syncDelay,    \* opts.dataSyncDelay, the same at every open of the directory
  idMap,        \* DbState.idMap: id -> MapEntry
  idOrder,      \* insertion order of idMap (a JS Map iterates in it)
  ridMap,       \* DbState.ridMap: _rid -> MapEntry
  blocks,       \* DbState.blocks: sequence of BlockInfo
  lastUsedBid,  \* DbState.lastUsedBid (0-based index into blocks)
  seqNo,        \* DbState.seqNo
  ridNo,        \* DbState.ridNo
  files,        \* the directory: block name -> file content
  pending,      \* fs.write requests issued and not yet performed
  nextId,       \* generateId's startId
  compaction,   \* the compactPage call in progress, if any
  now,          \* Date.now()
  unsynced,     \* block -> lines appendToFile wrote since its last fdatasync
  syncLog,      \* block -> the times of the fdatasync calls on it
  diskOk,       \* whether a write to the directory succeeds at present
  onErrorCalls, \* calls of opts.onError made so far
  opCount,      \* set, delete and compactPage calls made so far
  nOpens,       \* reopen cycles made so far
  last,         \* the last engine call: what it was given and returned
  reader        \* the readLines call in progress, if any

vars == <<opened, syncDelay, idMap, idOrder, ridMap, blocks, lastUsedBid,
          seqNo, ridNo, files, pending, nextId, compaction, now, unsynced,
          syncLog, diskOk, onErrorCalls, opCount, nOpens, last, reader>>

\* the clock and the state of the data syncs
syncVars == <<now, unsynced, syncLog>>
\* the state of the disk and the error hook
faultVars == <<diskOk, onErrorCalls>>

\* no readLines call is being followed
IdleReader ==
  [text |-> <<>>, bytes |-> <<>>, bufferSize |-> 1, pos |-> 0, held |-> <<>>,
   buffer |-> <<>>, lineNo |-> 0, out |-> <<>>, status |-> "idle"]

(***************************************************************************)
(* JSON values, objects and text.                                          *)
(* A JS object is the ordered sequence of its properties; JSON text is the *)
(* sequence of the properties JSON.stringify emits.                        *)
(***************************************************************************)
Str(s) == [t |-> "s", s |-> s, n |-> 0]
Num(n) == [t |-> "n", s |-> "", n |-> n]
Undefined == [t |-> "u", s |-> "", n |-> 0]
\* a number that is not an integer: n + 0.5, written "n.5" in JSON text
Half(n) == [t |-> "n", s |-> ".5", n |-> n]
Prop(k, v) == [k |-> k, v |-> v]
\* the JS value of an id: type Id = string | number. The ids of NumericIds
\* are numbers ("n7" is the model's name of the number 7), the others strings.
NumericIds == {"n7"}
IdValue(id) == IF id \in NumericIds THEN Num(7) ELSE Str(id)

ObjKeys(obj) == {obj[i].k : i \in DOMAIN obj}
ObjGet(obj, k) ==
  IF k \in ObjKeys(obj)
  THEN obj[CHOOSE i \in DOMAIN obj : obj[i].k = k].v
  ELSE Undefined
\* obj[k] = v: an existing property keeps its place, a new one goes last
ObjSet(obj, k, v) ==
  IF k \in ObjKeys(obj)
  THEN [i \in DOMAIN obj |-> IF obj[i].k = k THEN Prop(k, v) ELSE obj[i]]
  ELSE Append(obj, Prop(k, v))
\* the object as an unordered map (deep equality ignores property order)
ObjView(obj) == [k \in ObjKeys(obj) |-> ObjGet(obj, k)]

\* JSON.stringify: properties in order, undefined ones omitted
Stringify(obj) == SelectSeq(obj, LAMBDA p : p.v.t # "u")

\* String.length (UTF-16 units) and Buffer.byteLength (UTF-8) of a string
StrUnits(s) ==
  IF s = "w1000" THEN BigLen
  ELSE IF s = "acutes" THEN AccentLen
  ELSE IF s = "e_acute" THEN 1 ELSE Len(s)
StrBytes(s) ==
  IF s = "w1000" THEN BigLen
  ELSE IF s = "acutes" THEN 2 * AccentLen
  ELSE IF s = "e_acute" THEN 2 ELSE Len(s)
Digits(n) == IF n < 10 THEN 1 ELSE IF n < 100 THEN 2 ELSE 3

RECURSIVE SumProps(_, _, _)
SumProps(text, i, utf8) ==
  IF i > Len(text) THEN 0
  ELSE LET p == text[i]
           val == IF p.v.t = "s"
                  THEN 2 + (IF utf8 THEN StrBytes(p.v.s) ELSE StrUnits(p.v.s))
                  ELSE Digits(p.v.n) + Len(p.v.s)
       IN  Len(p.k) + 3 + val + SumProps(text, i + 1, utf8)
\* '{' '}' and the commas between the properties
TextSize(text, utf8) ==
  2 + SumProps(text, 1, utf8) + (IF Len(text) > 1 THEN Len(text) - 1 ELSE 0)
\* record.length, as updateStaleBytes and calculateStaleBytes measure it
TextLength(text) == TextSize(text, FALSE)
\* Buffer.from(text).byteLength, what reaches the file
TextBytes(text) == TextSize(text, TRUE)

(***************************************************************************)
(* Files. A file is its newline-terminated lines and an unterminated       *)
(* trailing fragment; a line is the sequence of JSON texts written between *)
(* two newlines (exactly one, when every write ended in a newline). ext is *)
(* the extension of its name: "block", "tmp", "page" or "old".             *)
(***************************************************************************)
EmptyFile == [lines |-> <<>>, frag |-> <<>>, ext |-> "block"]

RECURSIVE SumBytes(_, _)
SumBytes(chunks, i) ==
  IF i > Len(chunks) THEN 0 ELSE TextBytes(chunks[i]) + SumBytes(chunks, i + 1)
RECURSIVE SumLines(_, _)
SumLines(lines, i) ==
  IF i > Len(lines) THEN 0
  ELSE SumBytes(lines[i], 1) + 1 + SumLines(lines, i + 1)
\* fsp.stat(...).size
FileSize(f) == SumLines(f.lines, 1) + SumBytes(f.frag, 1)

\* the file after write(text + '\n')
WriteLine(f, text) ==
  [f EXCEPT !.lines = Append(f.lines, Append(f.frag, text)), !.frag = <<>>]

(***************************************************************************)
(* JS Map: a function together with its insertion order.                   *)
(***************************************************************************)
EmptyMap == [m |-> <<>>, o |-> <<>>]
MapHas(M, k) == k \in DOMAIN M.m
\* Map.set: an existing key keeps its position, a new key goes last
MapSet(M, k, v) ==
  IF MapHas(M, k)
  THEN [m |-> [M.m EXCEPT ![k] = v], o |-> M.o]
  ELSE [m |-> (k :> v) @@ M.m, o |-> Append(M.o, k)]
\* a delete that leaves the map as it is
MapDelete_Keep(M, k) == M

\* Map.delete
MapDelete(M, k) ==
  [m |-> [x \in DOMAIN M.m \ {k} |-> M.m[x]],
   o |-> SelectSeq(M.o, LAMBDA x : x # k)]

Max(a, b) == IF a > b THEN a ELSE b

(***************************************************************************)
(* Block registry.                                                         *)
(***************************************************************************)
BlockInfo(bid, size) ==
  [bid |-> bid, size |-> size, staleBytes |-> 0, locked |-> FALSE]

\* blocks.find((b) => b.bid === bid): the index of the first match, 0 if none
FindBlock(bs, bid) ==
  IF \E i \in DOMAIN bs : bs[i].bid = bid
  THEN CHOOSE i \in DOMAIN bs :
         bs[i].bid = bid /\ \A j \in 1..(i - 1) : bs[j].bid # bid
  ELSE 0

\* the tests of a candidate without the one of its locked flag
BlockAvailable_IgnoreLock(bs, i) ==
  /\ i >= 0 /\ i < Len(bs)
  /\ bs[i + 1].size < MaxBlockSize

\* getFreeBlock's two tests of a candidate (index i is 0-based, as in the code)
BlockAvailable(bs, i) ==
  /\ i >= 0 /\ i < Len(bs)
  /\ ~bs[i + 1].locked
  /\ bs[i + 1].size < MaxBlockSize

\* a scan that returns the later block it finds and leaves lastUsedBid alone
getFreeBlock_KeepLast(bs, lub, nid) ==
  LET length == Len(bs)
      startIdx == IF lub >= 0 /\ lub < length THEN lub ELSE 0
      later == {i \in (startIdx + 1)..(length - 1) : BlockAvailable(bs, i)}
  IN  IF BlockAvailable(bs, startIdx)
      THEN [bid |-> bs[startIdx + 1].bid, blocks |-> bs,
            lastUsedBid |-> startIdx, nextId |-> nid]
      ELSE IF later # {}
      THEN LET i == CHOOSE x \in later : \A y \in later : x <= y
           IN  [bid |-> bs[i + 1].bid, blocks |-> bs,
                lastUsedBid |-> startIdx, nextId |-> nid]
      ELSE [bid |-> nid + 1, blocks |-> Append(bs, BlockInfo(nid + 1, 0)),
            lastUsedBid |-> length, nextId |-> nid + 1]

\* getFreeBlock: the chosen bid with the registry, lastUsedBid and the id
\* counter as the call leaves them
getFreeBlock(bs, lub, nid) ==
  LET length == Len(bs)
      startIdx == IF lub >= 0 /\ lub < length THEN lub ELSE 0
      later == {i \in (startIdx + 1)..(length - 1) : BlockAvailable(bs, i)}
  IN  IF BlockAvailable(bs, startIdx)
      THEN [bid |-> bs[startIdx + 1].bid, blocks |-> bs,
            lastUsedBid |-> startIdx, nextId |-> nid]
      ELSE IF later # {}
      THEN LET i == CHOOSE x \in later : \A y \in later : x <= y
           IN  [bid |-> bs[i + 1].bid, blocks |-> bs,
                lastUsedBid |-> i, nextId |-> nid]
      ELSE [bid |-> nid + 1, blocks |-> Append(bs, BlockInfo(nid + 1, 0)),
            lastUsedBid |-> length, nextId |-> nid + 1]

\* updateStaleBytes(state, newEntry, oldEntry?): olds is {} or {oldEntry}.
\* ok = FALSE is the INTERNAL 'Page not found' throw, raised before the size
\* of the destination block is touched.
updateStaleBytes(bs, newEntry, olds) ==
  LET oldIdx == IF olds = {} THEN 0
                ELSE FindBlock(bs, (CHOOSE e \in olds : TRUE).bid)
      afterOld ==
        IF olds = {} \/ oldIdx = 0 THEN bs
        ELSE [bs EXCEPT ![oldIdx].staleBytes =
                @ + TextLength((CHOOSE e \in olds : TRUE).record)]
      newIdx == FindBlock(afterOld, newEntry.bid)
  IN  IF olds # {} /\ oldIdx = 0
      THEN [ok |-> FALSE, blocks |-> bs]
      ELSE [ok |-> TRUE,
            blocks |-> IF newIdx = 0 THEN afterOld
                       ELSE [afterOld EXCEPT ![newIdx].size =
                               @ + TextLength(newEntry.record)]]

\* calculateStaleBytes: staleBytes = size - the record lengths the rid-map
\* holds for the block
RECURSIVE SumRecords(_, _, _)
SumRecords(rm, rids, bid) ==
  IF rids = {} THEN 0
  ELSE LET r == CHOOSE x \in rids : TRUE
       IN  (IF rm[r].bid = bid THEN TextLength(rm[r].record) ELSE 0)
           + SumRecords(rm, rids \ {r}, bid)
calculateStaleBytes(bs, rm) ==
  [i \in DOMAIN bs |->
     [bs[i] EXCEPT !.staleBytes =
        bs[i].size - SumRecords(rm, DOMAIN rm, bs[i].bid)]]

(***************************************************************************)
(* Storage backend (createNodeStorage).                                    *)
(***************************************************************************)
\* createHandle: openSync(name, 'a+') creates the file when it is missing
createHandle(fs, bid) ==
  IF bid \in DOMAIN fs THEN fs ELSE (bid :> EmptyFile) @@ fs

\* one more line written to block bid and not followed by a data sync
Written(uns, bid) ==
  IF bid \in DOMAIN uns THEN [uns EXCEPT ![bid] = @ + 1] ELSE (bid :> 1) @@ uns
\* fs.fdatasyncSync on block bid at time t
Synced(uns, bid) == [Written(uns, bid) EXCEPT ![bid] = 0]
Logged(log, bid, t) ==
  IF bid \in DOMAIN log THEN [log EXCEPT ![bid] = Append(@, t)]
  ELSE (bid :> <<t>>) @@ log

\* throttle(func, throttleMs): whether the call at time t of the function it
\* returned runs func, and the lastCall the closure keeps
throttle(lastCall, t, throttleMs) ==
  [runs |-> t - lastCall >= throttleMs,
   lastCall |-> IF t - lastCall >= throttleMs THEN t ELSE lastCall]

\* appendToBlock -> appendToFile: with sync = 0 the line is written by
\* writeSync before the call returns, and nothing else is done; otherwise
\* fs.write is queued and the line reaches the file when the request is
\* performed.
\* failed = TRUE: writeSync threw, so the promise of appendToBlock rejects.
appendToBlock(fs, pend, uns, ok, delay, bid, text) ==
  LET fs1 == createHandle(fs, bid)
  IN  IF delay = 0 /\ ok
      THEN [files |-> [fs1 EXCEPT ![bid] = WriteLine(@, text)],
            pending |-> pend,
            unsynced |-> Written(uns, bid),
            failed |-> FALSE]
      ELSE IF delay = 0
      THEN [files |-> fs1, pending |-> pend, unsynced |-> uns,
            failed |-> TRUE]
      ELSE [files |-> fs1,
            pending |-> Append(pend, [bid |-> bid, text |-> text]),
            unsynced |-> uns,
            failed |-> FALSE]

\* a hook that is not called
onError_NotCalled(calls, n) == calls

\* .catch((error) => state.opts.onError?.(new Error(...))) for n rejected
\* appends
onError(calls, n) == calls + n

(***************************************************************************)
(* Reads.                                                                  *)
(***************************************************************************)
\* JSON.parse of one JSON text: the object, a repeated key keeping its
\* first place and its last value
JsonParse(text) ==
  LET firsts == {i \in DOMAIN text :
                   \A j \in 1..(i - 1) : text[j].k # text[i].k}
      nth(n) == CHOOSE i \in firsts :
                  Cardinality({j \in firsts : j < i}) = n - 1
      lastOf(k) == CHOOSE i \in DOMAIN text :
                     /\ text[i].k = k
                     /\ \A j \in (i + 1)..Len(text) : text[j].k # k
  IN  [n \in 1..Cardinality(firsts) |->
         Prop(text[nth(n)].k, text[lastOf(text[nth(n)].k)].v)]

\* hasItem on an open engine
hasItem(id) ==
  /\ id \in DOMAIN idMap
  /\ idMap[id]._oid # 2

NoValue == [kind |-> "undefined", value |-> <<>>]
\* getItem on an open engine: undefined, the parsed record, or an INTERNAL
\* throw
getItem(id) ==
  IF id \notin DOMAIN idMap THEN NoValue
  ELSE IF idMap[id]._oid = 2 THEN NoValue
  ELSE LET value == JsonParse(idMap[id].record)
       IN  IF ObjGet(value, "id") = Undefined \/ ObjGet(value, "id") # IdValue(id)
           THEN [kind |-> "throw", value |-> <<>>]
           ELSE [kind |-> "value", value |-> value]

(***************************************************************************)
(* The last call, kept for the properties: op, the id and the object       *)
(* given, whether hasItem(id) held before it, the record returned, the     *)
(* line handed to appendToBlock (<<>> if none) and its block, and whether  *)
(* it threw.                                                               *)
(***************************************************************************)
Call(op, id, arg, had, ret, text, bid, threw) ==
  [op |-> op, id |-> id, arg |-> arg, had |-> had, ret |-> ret,
   text |-> text, bid |-> bid, threw |-> threw]

\* a check of the engine's opened flag that always passes
dbIsOpen_Always == TRUE

\* dbIsOpen(state) does not throw
dbIsOpen == opened
\* the error dbIsOpen throws, and the call that ends with it
NotOpenError ==
  <<Prop("error", Str("Db should be opened before operation."))>>
NotOpen(op, id, arg) == Call(op, id, arg, FALSE, NotOpenError, <<>>, 0, TRUE)

(***************************************************************************)
(* Mutations.                                                              *)
(***************************************************************************)
\* the object a caller passes to set: { id, name }
UserValue(id, v) == <<Prop("id", IdValue(id)), Prop("name", Str(v))>>

\* the overlay with _seq taken before the increment (seqNo++ for ++seqNo)
SetValue_PostIncrement(value, id, seq, rid) ==
  ObjSet(ObjSet(ObjSet(ObjSet(value, "id", IdValue(id)),
                       "_seq", Num(seq - 1)), "_rid", Num(rid)),
         "_oid", Num(ItemSet))

\* setItem's overlay of the reserved fields on the caller's object
SetValue(value, id, seq, rid) ==
  ObjSet(ObjSet(ObjSet(ObjSet(value, "id", IdValue(id)),
                       "_seq", Num(seq)), "_rid", Num(rid)),
         "_oid", Num(ItemSet))

\* the tombstone carrying the deleted entry's own _seq
DeleteValue_StaleSeq(existing, seq) ==
  <<Prop("id", IdValue(existing.id)), Prop("_oid", Num(ItemDelete)),
    Prop("_rid", Num(existing._rid)), Prop("_seq", Num(existing._seq))>>

\* the object deleteItem serialises
DeleteValue(existing, seq) ==
  <<Prop("id", IdValue(existing.id)), Prop("_oid", Num(ItemDelete)),
    Prop("_rid", Num(existing._rid)), Prop("_seq", Num(seq))>>

MapEntry(id, bid, oid, rid, seq, record) ==
  [id |-> id, bid |-> bid, _oid |-> oid, _rid |-> rid, _seq |-> seq,
   record |-> record]

MayAppend == syncDelay = 0 \/ Len(pending) < MaxPending

setItem(id, v) ==
  /\ UNCHANGED reader
  /\ opCount < MaxOps
  /\ opCount' = opCount + 1
  /\ UNCHANGED <<opened, syncDelay, nOpens, compaction, now, syncLog,
                 diskOk>>
  /\ IF ~dbIsOpen
     THEN /\ last' = NotOpen("set", id, UserValue(id, v))
          /\ UNCHANGED <<idMap, idOrder, ridMap, blocks, lastUsedBid, seqNo,
                         ridNo, files, pending, nextId, unsynced,
                         onErrorCalls>>
     ELSE
     /\ MayAppend
     /\ LET exists == id \in DOMAIN idMap
            seq == seqNo + 1
            rid == IF exists THEN idMap[id]._rid ELSE ridNo + 1
            value == SetValue(UserValue(id, v), id, seq, rid)
            json == Stringify(value)
            free == getFreeBlock(blocks, lastUsedBid, nextId)
            entry == MapEntry(id, free.bid, ItemSet, rid, seq, json)
            newMap == MapSet([m |-> idMap, o |-> idOrder], id, entry)
            stale == updateStaleBytes(free.blocks, entry,
                                      IF exists THEN {idMap[id]} ELSE {})
            app == appendToBlock(files, pending, unsynced, diskOk, syncDelay,
                                free.bid, json)
        IN  /\ seqNo' = seq
            /\ ridNo' = IF exists THEN ridNo ELSE ridNo + 1
            /\ idMap' = newMap.m
            /\ idOrder' = newMap.o
            /\ ridMap' = (rid :> entry) @@ ridMap
            /\ blocks' = stale.blocks
            /\ lastUsedBid' = free.lastUsedBid
            /\ nextId' = free.nextId
            /\ IF stale.ok
               THEN /\ files' = app.files
                    /\ pending' = app.pending
                    /\ unsynced' = app.unsynced
                    /\ onErrorCalls' =
                         onError(onErrorCalls, IF app.failed THEN 1 ELSE 0)
                    /\ last' = Call("set", id, UserValue(id, v), hasItem(id),
                                    value, json, free.bid, FALSE)
               ELSE /\ UNCHANGED <<files, pending, unsynced, onErrorCalls>>
                    /\ last' = Call("set", id, UserValue(id, v), hasItem(id),
                                    <<>>, <<>>, 0, TRUE)

deleteItem(id) ==
  /\ UNCHANGED reader
  /\ opCount < MaxOps
  /\ dbIsOpen => MayAppend
  /\ opCount' = opCount + 1
  /\ UNCHANGED <<opened, syncDelay, nOpens, compaction, now, syncLog,
                 diskOk>>
  /\ IF ~dbIsOpen
     THEN /\ last' = NotOpen("delete", id, <<>>)
          /\ UNCHANGED <<idMap, idOrder, ridMap, blocks, lastUsedBid, seqNo,
                         ridNo, files, pending, nextId, unsynced,
                         onErrorCalls>>
     ELSE IF id \notin DOMAIN idMap
     THEN /\ last' = Call("delete", id, <<>>, FALSE, <<>>, <<>>, 0, FALSE)
          /\ UNCHANGED <<idMap, idOrder, ridMap, blocks, lastUsedBid, seqNo,
                         ridNo, files, pending, nextId, unsynced,
                         onErrorCalls>>
     ELSE LET existing == idMap[id]
              newMap == MapDelete([m |-> idMap, o |-> idOrder], id)
              free == getFreeBlock(blocks, lastUsedBid, nextId)
              seq == seqNo + 1
              json == Stringify(DeleteValue(existing, seq))
              value == MapEntry(existing.id, free.bid, ItemDelete,
                                existing._rid, seq, json)
              stale == updateStaleBytes(free.blocks, value, {existing})
              app == appendToBlock(files, pending, unsynced, diskOk, syncDelay,
                                free.bid, json)
          IN  /\ idMap' = newMap.m
              /\ idOrder' = newMap.o
              /\ ridMap' = [r \in DOMAIN ridMap \ {existing._rid} |-> ridMap[r]]
              /\ seqNo' = seq
              /\ ridNo' = ridNo
              /\ blocks' = stale.blocks
              /\ lastUsedBid' = free.lastUsedBid
              /\ nextId' = free.nextId
              /\ IF stale.ok
                 THEN /\ files' = app.files
                      /\ pending' = app.pending
                      /\ unsynced' = app.unsynced
                      /\ onErrorCalls' =
                           onError(onErrorCalls, IF app.failed THEN 1 ELSE 0)
                      /\ last' = Call("delete", id, <<>>, hasItem(id), <<>>,
                                      json, free.bid, FALSE)
                 ELSE /\ UNCHANGED <<files, pending, unsynced, onErrorCalls>>
                      /\ last' = Call("delete", id, <<>>, hasItem(id), <<>>,
                                      <<>>, 0, TRUE)

\* the thread pool performs one queued fs.write; requests on one descriptor
\* issued without waiting for each other may be performed in any order. Its
\* callback builds a throttled function (lastCall = 0) and calls it once.
\* When the write fails the callback rejects the promise of the append,
\* whose catch calls the error hook.
WriteComplete(i) ==
  /\ UNCHANGED reader
  /\ i \in DOMAIN pending
  /\ pending' = [j \in 1..(Len(pending) - 1) |->
                   IF j < i THEN pending[j] ELSE pending[j + 1]]
  /\ IF ~diskOk
     THEN /\ onErrorCalls' = onError(onErrorCalls, 1)
          /\ UNCHANGED <<files, unsynced, syncLog>>
     ELSE /\ files' = [files EXCEPT
                         ![pending[i].bid] = WriteLine(@, pending[i].text)]
          /\ UNCHANGED onErrorCalls
          /\ IF throttle(0, now, syncDelay).runs
             THEN /\ unsynced' = Synced(unsynced, pending[i].bid)
                  /\ syncLog' = Logged(syncLog, pending[i].bid, now)
             ELSE /\ unsynced' = Written(unsynced, pending[i].bid)
                  /\ UNCHANGED syncLog
  /\ UNCHANGED <<opened, syncDelay, idMap, idOrder, ridMap, blocks,
                 lastUsedBid, seqNo, ridNo, nextId, compaction, now, diskOk,
                 opCount, nOpens, last>>

\* the disk starts or stops failing writes
DiskFault ==
  /\ UNCHANGED reader
  /\ diskOk' = ~diskOk
  /\ UNCHANGED <<opened, syncDelay, syncVars, onErrorCalls, idMap, idOrder,
                 ridMap, blocks, lastUsedBid, seqNo, ridNo, files, pending,
                 nextId, compaction, opCount, nOpens, last>>

\* time passes
Tick ==
  /\ UNCHANGED reader
  /\ now < StartTime + MaxTicks * TickMs
  /\ now' = now + TickMs
  /\ UNCHANGED <<opened, syncDelay, idMap, idOrder, ridMap, blocks,
                 lastUsedBid, seqNo, ridNo, files, pending, nextId, compaction,
                 unsynced, syncLog, faultVars, opCount, nOpens, last>>

\* a close without the opened test that cuts the last line off every file
closeDb_DropLastLine ==
  /\ UNCHANGED reader
  /\ opened' = FALSE
  /\ pending' = <<>>
  /\ files' = [b \in DOMAIN files |->
                 [files[b] EXCEPT !.lines =
                    SubSeq(@, 1, Max(Len(@), 1) - 1)]]
  /\ last' = IF opened
             THEN Call("close", "", <<>>, FALSE, <<>>, <<>>, 0, FALSE)
             ELSE NotOpen("close", "", <<>>)
  /\ UNCHANGED <<syncDelay, syncVars, faultVars, idMap, idOrder, ridMap,
                 blocks, lastUsedBid, seqNo, ridNo, nextId, compaction,
                 opCount, nOpens>>

\* closeDb: on a closed engine dbIsOpen throws; otherwise storage.close()
\* closes every descriptor at once, and a queued write not yet performed
\* fails on the closed descriptor and is lost, its promise rejecting into
\* the error hook
closeDb ==
  /\ UNCHANGED reader
  /\ IF ~dbIsOpen
     THEN /\ last' = NotOpen("close", "", <<>>)
          /\ UNCHANGED <<opened, pending, onErrorCalls>>
     ELSE /\ opened' = FALSE
          /\ pending' = <<>>
          /\ onErrorCalls' = onError(onErrorCalls, Len(pending))
          /\ last' = Call("close", "", <<>>, FALSE, <<>>, <<>>, 0, FALSE)
  /\ UNCHANGED <<syncDelay, syncVars, diskOk, idMap, idOrder, ridMap, blocks,
                 lastUsedBid, seqNo, ridNo, files, nextId, compaction,
                 opCount, nOpens>>

\* db.has(id): hasItem behind dbIsOpen; the result is kept in last.had
has(id) ==
  /\ UNCHANGED reader
  /\ last' = IF ~dbIsOpen THEN NotOpen("has", id, <<>>)
             ELSE Call("has", id, <<>>, hasItem(id), <<>>, <<>>, 0, FALSE)
  /\ UNCHANGED <<opened, syncDelay, syncVars, faultVars, idMap, idOrder,
                 ridMap, blocks, lastUsedBid, seqNo, ridNo, files, pending,
                 nextId, compaction, opCount, nOpens>>

\* db.get(id): getItem behind dbIsOpen; the result is kept in last.ret
get(id) ==
  /\ UNCHANGED reader
  /\ last' = IF ~dbIsOpen THEN NotOpen("get", id, <<>>)
             ELSE Call("get", id, <<>>, hasItem(id), getItem(id).value, <<>>,
                       0, getItem(id).kind = "throw")
  /\ UNCHANGED <<opened, syncDelay, syncVars, faultVars, idMap, idOrder,
                 ridMap, blocks, lastUsedBid, seqNo, ridNo, files, pending,
                 nextId, compaction, opCount, nOpens>>

(***************************************************************************)
(* Recovery (createDbState).                                               *)
(***************************************************************************)
\* missingAndTypeCheck(json, field, type) does not throw
missingAndTypeCheck(json, field, type) == ObjGet(json, field).t = type

\* loadBlock over the lines readLines yields (the unterminated fragment is
\* never yielded). ok = FALSE with error "EmptyLine" when readLines meets an
\* empty line, and with error "InvalidRecord" when JSON.parse fails (the
\* line holds several texts run together) or a reserved field is missing or
\* of the wrong type; the lines before the faulty one have been loaded.
RECURSIVE LoadLines(_, _, _, _)
LoadLines(lines, i, bid, M) ==
  IF i > Len(lines) THEN [ok |-> TRUE, error |-> "", map |-> M]
  ELSE IF Len(lines[i]) = 0
  THEN [ok |-> FALSE, error |-> "EmptyLine", map |-> M]
  ELSE IF Len(lines[i]) # 1
  THEN [ok |-> FALSE, error |-> "InvalidRecord", map |-> M]
  ELSE LET record == lines[i][1]
           json == JsonParse(record)
       IN  IF /\ missingAndTypeCheck(json, "id", "s")
              /\ missingAndTypeCheck(json, "_oid", "n")
              /\ missingAndTypeCheck(json, "_rid", "n")
              /\ missingAndTypeCheck(json, "_seq", "n")
           THEN LoadLines(lines, i + 1, bid,
                  MapSet(M, ObjGet(json, "id").s,
                         MapEntry(ObjGet(json, "id").s, bid,
                                  ObjGet(json, "_oid").n,
                                  ObjGet(json, "_rid").n,
                                  ObjGet(json, "_seq").n, record)))
           ELSE [ok |-> FALSE, error |-> "InvalidRecord", map |-> M]
\* a load that passes over the empty lines of the block
loadBlock_SkipEmpty(bid, f) ==
  LoadLines(SelectSeq(f.lines, LAMBDA l : l # <<>>), 1, bid, EmptyMap)

\* a load that reads the lines of the block from the last to the first
loadBlock_Backwards(bid, f) ==
  LoadLines([i \in DOMAIN f.lines |-> f.lines[Len(f.lines) + 1 - i]], 1, bid,
            EmptyMap)

loadBlock(bid, f) == LoadLines(f.lines, 1, bid, EmptyMap)

\* a merge of one map that also keeps the existing entry when the _seq of
\* the incoming one is equal
RECURSIVE MergeMap_KeepOnTie(_, _, _)
MergeMap_KeepOnTie(target, M, i) ==
  IF i > Len(M.o) THEN target
  ELSE LET key == M.o[i]
           value == M.m[key]
       IN  IF MapHas(target, key) /\ target.m[key]._seq >= value._seq
           THEN MergeMap_KeepOnTie(target, M, i + 1)
           ELSE MergeMap_KeepOnTie(MapSet(target, key, value), M, i + 1)

\* mergeBlockMaps(target, ...maps): an existing entry is kept only when its
\* _seq is strictly greater
RECURSIVE MergeMap(_, _, _)
MergeMap(target, M, i) ==
  IF i > Len(M.o) THEN target
  ELSE LET key == M.o[i]
           value == M.m[key]
       IN  IF MapHas(target, key) /\ target.m[key]._seq > value._seq
           THEN MergeMap(target, M, i + 1)
           ELSE MergeMap(MapSet(target, key, value), M, i + 1)
RECURSIVE mergeBlockMaps(_, _, _)
mergeBlockMaps(target, maps, j) ==
  IF j > Len(maps) THEN target
  ELSE mergeBlockMaps(MergeMap(target, maps[j], 1), maps, j + 1)

\* the error a failed open rejects with: Promise.all rejects with the error
\* of whichever load fails first
LoadError(kind) == <<Prop("error", Str(kind))>>

\* for (const [, entry] of idMap) ridMap.set(entry._rid, entry)
RECURSIVE BuildRidMap(_, _, _)
BuildRidMap(M, i, rm) ==
  IF i > Len(M.o) THEN rm
  ELSE BuildRidMap(M, i + 1,
                   (M.m[M.o[i]]._rid :> M.m[M.o[i]]) @@ rm)

\* sequenceNo(src, Math.max, field)
RECURSIVE MaxField(_, _, _)
MaxField(rm, rids, field) ==
  IF rids = {} THEN 0
  ELSE LET r == CHOOSE x \in rids : TRUE
       IN  Max(rm[r][field], MaxField(rm, rids \ {r}, field))
sequenceNo(src, field) == MaxField(src, DOMAIN src, field)

\* the orders in which readdir may list the block files
RECURSIVE Perms(_)
Perms(S) ==
  IF S = {} THEN {<<>>}
  ELSE UNION {{<<x>> \o p : p \in Perms(S \ {x})} : x \in S}

EmptyFcn == [x \in {} |-> 0]

\* getBlocksStats: the files of the directory whose name ends in '.block'
BlockFiles == {b \in DOMAIN files : files[b].ext = "block"}

\* a reopen is explored once the compaction in progress, if any, has ended
createDbState ==
  /\ UNCHANGED reader
  /\ ~opened
  /\ nOpens < MaxOpens
  /\ compaction.phase = "idle"
  /\ nOpens' = nOpens + 1
  /\ LET loaded == [b \in BlockFiles |-> loadBlock(b, files[b])]
         sizes == [b \in BlockFiles |-> FileSize(files[b])]
     IN
     \E dir \in Perms(BlockFiles) :
       LET stats == [i \in DOMAIN dir |-> BlockInfo(dir[i], sizes[dir[i]])]
           loads == [i \in DOMAIN dir |-> loaded[dir[i]]]
           merged == mergeBlockMaps(EmptyMap,
                                    [i \in DOMAIN dir |-> loads[i].map], 1)
           rids == BuildRidMap(merged, 1, EmptyFcn)
           created == stats = <<>>
           bs == IF created THEN <<BlockInfo(nextId + 1, 0)>> ELSE stats
       IN  IF \E i \in DOMAIN dir : ~loads[i].ok
           THEN /\ \E i \in {j \in DOMAIN dir : ~loads[j].ok} :
                     last' = Call("open", "", <<>>, FALSE,
                                  LoadError(loads[i].error), <<>>, 0, TRUE)
                /\ UNCHANGED <<opened, idMap, idOrder, ridMap, blocks,
                               lastUsedBid, seqNo, ridNo, files, nextId>>
           ELSE /\ opened' = TRUE
                /\ idMap' = merged.m
                /\ idOrder' = merged.o
                /\ ridMap' = rids
                /\ seqNo' = sequenceNo(rids, "_seq")
                /\ ridNo' = sequenceNo(rids, "_rid")
                /\ blocks' = calculateStaleBytes(bs, rids)
                /\ lastUsedBid' = 0
                /\ nextId' = IF created THEN nextId + 1 ELSE nextId
                /\ files' = IF created THEN createHandle(files, nextId + 1)
                            ELSE files
                /\ last' = Call("open", "", <<>>, FALSE, <<>>, <<>>, 0, FALSE)
  /\ UNCHANGED <<syncDelay, syncVars, faultVars, pending, compaction, opCount>>

(***************************************************************************)
(* Compaction (compactPage), applied to the engine's id-map and registry:  *)
(* a Page is a BlockInfo, its pageId the bid. Each action runs the code    *)
(* from one await to the next.                                             *)
(***************************************************************************)
NoCompaction ==
  [phase |-> "idle", page |-> 0, newId |-> 0, visited |-> {},
   newMap |-> EmptyMap, runs |-> 0]

\* a merge that sets every incoming entry, whatever the _seq of the one held
mergePageMaps_Overwrite(target, M) ==
  [m |-> [k \in DOMAIN target.m \cup DOMAIN M.m |->
            IF k \in DOMAIN M.m THEN M.m[k] ELSE target.m[k]],
   o |-> target.o \o SelectSeq(M.o, LAMBDA k : k \notin DOMAIN target.m)]

\* mergePageMaps(target, newMap)
mergePageMaps(target, M) == MergeMap(target, M, 1)

\* a registry from which nothing is removed
Splice_Keep(bs, idx) == bs

\* pages.splice(index, 1) with index = findIndex(...): -1 removes the last
Splice(bs, idx) ==
  LET at == IF idx = 0 THEN Len(bs) ELSE idx
  IN  [j \in 1..(Len(bs) - 1) |-> IF j < at THEN bs[j] ELSE bs[j + 1]]

\* the for-loop purging the entries of the map that still name the old page
PurgePage(M, page) ==
  [m |-> [k \in {x \in DOMAIN M.m : M.m[x].bid # page} |-> M.m[k]],
   o |-> SelectSeq(M.o, LAMBDA x : M.m[x].bid # page)]

\* a start without the lock test: a call on a locked page begins the
\* compaction of the page once more, with a new id and a new .tmp file
CompactStart_NoLockTest(i) ==
  /\ UNCHANGED reader
  /\ opened
  /\ opCount < MaxOps
  /\ opCount' = opCount + 1
  /\ i \in DOMAIN blocks
  /\ blocks[i].locked \/ compaction.phase = "idle"
  /\ blocks[i].locked \/ compaction.runs < MaxCompactions
  /\ blocks' = [blocks EXCEPT ![i].locked = TRUE]
  /\ nextId' = nextId + 1
  /\ files' = (nextId + 1 :> [EmptyFile EXCEPT !.ext = "tmp"]) @@ files
  /\ compaction' = [phase |-> "write", page |-> blocks[i].bid,
                    newId |-> nextId + 1, visited |-> {},
                    newMap |-> EmptyMap,
                    runs |-> IF blocks[i].locked THEN compaction.runs
                             ELSE compaction.runs + 1]
  /\ last' = Call("compact", "", <<>>, FALSE, <<>>, <<>>,
                  blocks[i].bid, FALSE)
  /\ UNCHANGED <<opened, syncDelay, syncVars, faultVars, idMap, idOrder,
                 ridMap, lastUsedBid, seqNo, ridNo, pending, nOpens>>

\* compactPage up to the first await: the lock test, the lock, the new id
\* and the creation of the .tmp file. One compaction runs at a time; a call
\* on the page being compacted throws and changes nothing. The sweep that
\* calls it runs on a timer of the open engine.
CompactStart(i) ==
  /\ UNCHANGED reader
  /\ opened
  /\ opCount < MaxOps
  /\ opCount' = opCount + 1
  /\ i \in DOMAIN blocks
  /\ IF blocks[i].locked
     THEN /\ last' = Call("compact", "", <<>>, FALSE, <<>>, <<>>,
                          blocks[i].bid, TRUE)
          /\ UNCHANGED <<blocks, nextId, files, compaction>>
     ELSE /\ compaction.phase = "idle"
          /\ compaction.runs < MaxCompactions
          /\ blocks' = [blocks EXCEPT ![i].locked = TRUE]
          /\ nextId' = nextId + 1
          /\ files' = (nextId + 1 :> [EmptyFile EXCEPT !.ext = "tmp"]) @@ files
          /\ compaction' = [phase |-> "write", page |-> blocks[i].bid,
                            newId |-> nextId + 1, visited |-> {},
                            newMap |-> EmptyMap,
                            runs |-> compaction.runs + 1]
          /\ last' = Call("compact", "", <<>>, FALSE, <<>>, <<>>,
                          blocks[i].bid, FALSE)
  /\ UNCHANGED <<opened, syncDelay, syncVars, faultVars, idMap, idOrder,
                 ridMap, lastUsedBid, seqNo, ridNo, pending, nOpens>>

\* one turn of the loop over map.entries(): the next entry of the page is
\* written to the new file, as it is, and entered in newMap with the new bid;
\* when none is left the loop ends and the handle is closed
CompactWrite ==
  /\ UNCHANGED reader
  /\ compaction.phase = "write"
  /\ LET todo == {n \in DOMAIN idOrder :
                    /\ idOrder[n] \notin compaction.visited
                    /\ idMap[idOrder[n]].bid = compaction.page}
     IN  IF todo = {}
         THEN /\ compaction' = [compaction EXCEPT !.phase = "rename"]
              /\ UNCHANGED files
         ELSE LET n == CHOOSE x \in todo : \A y \in todo : x <= y
                  id == idOrder[n]
                  entry == idMap[id]
              IN  /\ files' = [files EXCEPT ![compaction.newId].frag =
                                  Append(@, entry.record)]
                  /\ compaction' =
                       [compaction EXCEPT
                          !.visited = @ \cup {id},
                          !.newMap = MapSet(@, id, [entry EXCEPT
                                                     !.bid = compaction.newId])]
  /\ UNCHANGED <<opened, syncDelay, syncVars, faultVars, idMap, idOrder,
                 ridMap, blocks, lastUsedBid, seqNo, ridNo, pending, nextId,
                 opCount, nOpens, last>>

\* fsp.rename(newPagePath, renamedPageFile)
CompactRename ==
  /\ UNCHANGED reader
  /\ compaction.phase = "rename"
  /\ files' = [files EXCEPT ![compaction.newId].ext = "page"]
  /\ compaction' = [compaction EXCEPT !.phase = "merge"]
  /\ UNCHANGED <<opened, syncDelay, syncVars, faultVars, idMap, idOrder,
                 ridMap, blocks, lastUsedBid, seqNo, ridNo, pending, nextId,
                 opCount, nOpens, last>>

\* openOrCreatePageFile, mergePageMaps, the splice and push of the registry
\* and the purge of the old page's entries
CompactMerge ==
  /\ UNCHANGED reader
  /\ compaction.phase = "merge"
  /\ LET newPage == BlockInfo(compaction.newId,
                              FileSize(files[compaction.newId]))
         merged == mergePageMaps([m |-> idMap, o |-> idOrder],
                                 compaction.newMap)
         index == FindBlock(blocks, compaction.page)
         purged == PurgePage(merged, compaction.page)
     IN  /\ idMap' = purged.m
         /\ idOrder' = purged.o
         /\ blocks' = Append(Splice(blocks, index), newPage)
  /\ compaction' = [compaction EXCEPT !.phase = "retire"]
  /\ UNCHANGED <<opened, syncDelay, syncVars, faultVars, ridMap, lastUsedBid,
                 seqNo, ridNo, files, pending, nextId, opCount, nOpens, last>>

\* page.close() and the rename of the old file to <name>.old
CompactRetire ==
  /\ UNCHANGED reader
  /\ compaction.phase = "retire"
  /\ files' = [files EXCEPT ![compaction.page].ext = "old"]
  /\ compaction' = [NoCompaction EXCEPT !.runs = compaction.runs]
  /\ UNCHANGED <<opened, syncDelay, syncVars, faultVars, idMap, idOrder,
                 ridMap, blocks, lastUsedBid, seqNo, ridNo, pending, nextId,
                 opCount, nOpens, last>>

(***************************************************************************)
(* The engine as openDb wires it: open on an empty directory, then set,    *)
(* delete, close and reopen, with queued writes performed in between.      *)
(***************************************************************************)
\* the engine as openDb returns it on an empty directory
EngineInit ==
  /\ opened = TRUE
  /\ syncDelay \in SyncDelays
  /\ idMap = EmptyFcn
  /\ idOrder = <<>>
  /\ ridMap = EmptyFcn
  /\ blocks = <<BlockInfo(1, 0)>>
  /\ lastUsedBid = 0
  /\ seqNo = 0
  /\ ridNo = 0
  /\ files = (1 :> EmptyFile)
  /\ pending = <<>>
  /\ nextId = 1
  /\ compaction = NoCompaction
  /\ now = StartTime
  /\ unsynced = EmptyFcn
  /\ syncLog = EmptyFcn
  /\ diskOk = TRUE
  /\ onErrorCalls = 0
  /\ opCount = 0
  /\ nOpens = 0
  /\ last = Call("open", "", <<>>, FALSE, <<>>, <<>>, 0, FALSE)

Init == EngineInit /\ reader = IdleReader

Next ==
  \/ \E id \in Keys, v \in Values : setItem(id, v)
  \/ \E id \in Keys : deleteItem(id)
  \/ \E i \in 1..MaxPending : WriteComplete(i)
  \/ closeDb
  \/ createDbState

Spec == Init /\ [][Next]_vars

(***************************************************************************)
(* The engine with compactPage run on its blocks while it is in use.       *)
(***************************************************************************)
NextCompact ==
  \/ Next
  \/ \E i \in DOMAIN blocks : CompactStart(i)
  \/ CompactWrite
  \/ CompactRename
  \/ CompactMerge
  \/ CompactRetire

SpecCompact == Init /\ [][NextCompact]_vars

(***************************************************************************)
(* The open engine with the clock that the throttle of the data syncs      *)
(* reads.                                                                  *)
(***************************************************************************)
NextSync ==
  \/ \E id \in Keys, v \in Values : setItem(id, v)
  \/ \E id \in Keys : deleteItem(id)
  \/ \E i \in 1..MaxPending : WriteComplete(i)
  \/ Tick

SpecSync == Init /\ [][NextSync]_vars

(***************************************************************************)
(* The open engine on a disk whose writes may fail.                        *)
(***************************************************************************)
NextFault ==
  \/ \E id \in Keys, v \in Values : setItem(id, v)
  \/ \E id \in Keys : deleteItem(id)
  \/ \E i \in 1..MaxPending : WriteComplete(i)
  \/ DiskFault

SpecFault == Init /\ [][NextFault]_vars

(***************************************************************************)
(* The engine fed with long multi-byte records, closed and reopened.       *)
(***************************************************************************)
NextLong ==
  \/ \E id \in Keys, v \in LongValues : setItem(id, v)
  \/ \E id \in Keys : deleteItem(id)
  \/ \E i \in 1..MaxPending : WriteComplete(i)
  \/ closeDb
  \/ createDbState

SpecLong == Init /\ [][NextLong]_vars

(***************************************************************************)
(* The engine opened on a directory it did not write: one block file whose *)
(* lines are drawn from DirLines, with or without an unterminated          *)
(* fragment. The engine is also run from an empty directory with ids that  *)
(* are numbers as well as strings.                                         *)
(***************************************************************************)
\* a set record as it stands in a file, a reserved field left out when its
\* value is Undefined
DirRecord(id, oid, rid, seq) ==
  Stringify(<<Prop("id", id), Prop("name", Str("e_acute")),
              Prop("_seq", seq), Prop("_rid", rid), Prop("_oid", oid)>>)
DirValid == DirRecord(Str("a"), Num(1), Num(1), Num(1))
DirTexts ==
  {DirValid}
  \cup {DirRecord(id, Num(1), Num(1), Num(1)) : id \in {Num(7), Undefined}}
  \cup {DirRecord(Str("a"), v, Num(1), Num(1)) :
          v \in {Undefined, Str("1"), Half(1)}}
  \cup {DirRecord(Str("a"), Num(1), v, Num(1)) : v \in {Undefined, Str("1")}}
  \cup {DirRecord(Str("a"), Num(1), Num(1), v) : v \in {Undefined, Str("1")}}
\* an empty line, two records run together, or one record
DirLines == {<<>>, <<DirValid, DirValid>>} \cup {<<t>> : t \in DirTexts}

InitDir ==
  /\ opened = FALSE
  /\ syncDelay \in SyncDelays
  /\ idMap = EmptyFcn
  /\ idOrder = <<>>
  /\ ridMap = EmptyFcn
  /\ blocks = <<>>
  /\ lastUsedBid = 0
  /\ seqNo = 0
  /\ ridNo = 0
  /\ \E n \in 0..MaxDirLines :
       \E ls \in [1..n -> DirLines], fr \in {<<>>, <<DirValid>>} :
         files = (1 :> [lines |-> ls, frag |-> fr, ext |-> "block"])
  /\ pending = <<>>
  /\ nextId = 1
  /\ compaction = NoCompaction
  /\ now = StartTime
  /\ unsynced = EmptyFcn
  /\ syncLog = EmptyFcn
  /\ diskOk = TRUE
  /\ onErrorCalls = 0
  /\ opCount = 0
  /\ nOpens = 0
  /\ last = Call("none", "", <<>>, FALSE, <<>>, <<>>, 0, FALSE)
  /\ reader = IdleReader

InitLoad == Init \/ InitDir

LoadKeys == {"a"} \cup NumericIds

NextLoad ==
  \/ \E id \in LoadKeys : setItem(id, "e_acute")
  \/ \E id \in LoadKeys : deleteItem(id)
  \/ \E i \in 1..MaxPending : WriteComplete(i)
  \/ closeDb
  \/ createDbState

SpecLoad == InitLoad /\ [][NextLoad]_vars

(***************************************************************************)
(* The open of a directory of several block files that hold records of the *)
(* same keys, with equal and with different _seq, followed by reads.       *)
(***************************************************************************)
MergeTexts ==
  {DirRecord(Str("a"), Num(ItemSet), Num(1), Num(seq)) : seq \in 1..2}
  \cup {DirRecord(Str("b"), Num(ItemSet), Num(2), Num(1))}
MergeFiles ==
  {[lines |-> [i \in DOMAIN ts |-> <<ts[i]>>], frag |-> <<>>,
    ext |-> "block"] :
     ts \in UNION {[1..n -> MergeTexts] : n \in 0..MaxMergeLines}}

InitMerge ==
  /\ opened = FALSE
  /\ syncDelay = 0
  /\ idMap = EmptyFcn
  /\ idOrder = <<>>
  /\ ridMap = EmptyFcn
  /\ blocks = <<>>
  /\ lastUsedBid = 0
  /\ seqNo = 0
  /\ ridNo = 0
  /\ \E n \in 1..MaxMergeFiles : files \in [1..n -> MergeFiles]
  /\ pending = <<>>
  /\ nextId = MaxMergeFiles
  /\ compaction = NoCompaction
  /\ now = StartTime
  /\ unsynced = EmptyFcn
  /\ syncLog = EmptyFcn
  /\ diskOk = TRUE
  /\ onErrorCalls = 0
  /\ opCount = 0
  /\ nOpens = 0
  /\ last = Call("none", "", <<>>, FALSE, <<>>, <<>>, 0, FALSE)
  /\ reader = IdleReader

NextMerge ==
  \/ createDbState
  \/ \E id \in Keys : has(id)
  \/ \E id \in Keys : get(id)
  \/ closeDb

SpecMerge == InitMerge /\ [][NextMerge]_vars

(***************************************************************************)
(* readLines (the storage's readBlock) on the bytes of a file. The file is *)
(* UTF-8 text over the characters "x", "e9" (U+00E9, two bytes) and "nl"   *)
(* (the break character). The read stream delivers the file in chunks of   *)
(* bufferSize bytes, decoded as utf8: a multi-byte character cut by the    *)
(* end of a chunk is held back until its last byte has come.               *)
(***************************************************************************)
ReadChars == {"x", "e9", "nl"}
Utf8(c) ==
  IF c = "nl" THEN <<10>> ELSE IF c = "e9" THEN <<195, 169>> ELSE <<120>>
RECURSIVE Encode(_)
Encode(cs) == IF cs = <<>> THEN <<>> ELSE Utf8(Head(cs)) \o Encode(Tail(cs))

\* a decoder that emits U+FFFD for a character cut by the end of the chunk
RECURSIVE DecodeBytes_NoCarry(_)
DecodeBytes_NoCarry(bs) ==
  IF bs = <<>> THEN [chars |-> <<>>, held |-> <<>>]
  ELSE IF bs[1] = 195 /\ Len(bs) >= 2 /\ bs[2] = 169
  THEN LET r == DecodeBytes_NoCarry(SubSeq(bs, 3, Len(bs)))
       IN  [chars |-> <<"e9">> \o r.chars, held |-> r.held]
  ELSE LET r == DecodeBytes_NoCarry(Tail(bs))
       IN  [chars |-> <<(IF bs[1] = 10 THEN "nl"
                         ELSE IF bs[1] = 120 THEN "x" ELSE "fffd")>>
                      \o r.chars,
            held |-> r.held]

\* StringDecoder.write on the bytes held back followed by those of the
\* chunk: the characters decoded and the bytes held back for the next chunk
RECURSIVE DecodeBytes(_)
DecodeBytes(bs) ==
  IF bs = <<>> THEN [chars |-> <<>>, held |-> <<>>]
  ELSE IF bs[1] = 195 /\ Len(bs) = 1 THEN [chars |-> <<>>, held |-> bs]
  ELSE IF bs[1] = 195 /\ bs[2] = 169
  THEN LET r == DecodeBytes(SubSeq(bs, 3, Len(bs)))
       IN  [chars |-> <<"e9">> \o r.chars, held |-> r.held]
  ELSE LET r == DecodeBytes(Tail(bs))
       IN  [chars |-> <<(IF bs[1] = 10 THEN "nl"
                         ELSE IF bs[1] = 120 THEN "x" ELSE "fffd")>>
                      \o r.chars,
            held |-> r.held]

\* buffer.indexOf(breakChar): 1-based, 0 when there is none
IndexOfBreak(buf) ==
  IF \E i \in DOMAIN buf : buf[i] = "nl"
  THEN CHOOSE i \in DOMAIN buf :
         buf[i] = "nl" /\ \A j \in 1..(i - 1) : buf[j] # "nl"
  ELSE 0

\* the while loop of readLines over the buffer: the lines yielded, the rest
\* of the buffer, and whether an empty line made it throw
RECURSIVE TakeLines(_, _, _)
TakeLines(buf, lineNo, out) ==
  LET lineBreakIndex == IndexOfBreak(buf)
      line == SubSeq(buf, 1, lineBreakIndex - 1)
  IN  IF lineBreakIndex = 0
      THEN [buffer |-> buf, lineNo |-> lineNo, out |-> out, threw |-> FALSE]
      ELSE IF Len(line) = 0
      THEN [buffer |-> buf, lineNo |-> lineNo, out |-> out, threw |-> TRUE]
      ELSE TakeLines(SubSeq(buf, lineBreakIndex + 1, Len(buf)), lineNo + 1,
                     Append(out, [line |-> line, lineNo |-> lineNo + 1]))

\* a readLines call on a file of the text cs with the buffer size given
NewReader(cs, size) ==
  [text |-> cs, bytes |-> Encode(cs), bufferSize |-> size, pos |-> 0,
   held |-> <<>>, buffer |-> <<>>, lineNo |-> 0, out |-> <<>>,
   status |-> "reading"]

\* one turn of for await (const chunk of rs): the next bufferSize bytes of
\* the file are decoded and added to the buffer, whose lines are yielded
ReadChunk ==
  /\ reader.status = "reading"
  /\ reader.pos < Len(reader.bytes)
  /\ LET upto == IF reader.pos + reader.bufferSize < Len(reader.bytes)
                 THEN reader.pos + reader.bufferSize
                 ELSE Len(reader.bytes)
         dec == DecodeBytes(reader.held
                            \o SubSeq(reader.bytes, reader.pos + 1, upto))
         taken == TakeLines(reader.buffer \o dec.chars, reader.lineNo,
                            reader.out)
     IN  reader' = [reader EXCEPT !.pos = upto,
                                  !.held = dec.held,
                                  !.buffer = taken.buffer,
                                  !.lineNo = taken.lineNo,
                                  !.out = taken.out,
                                  !.status = IF taken.threw THEN "threw"
                                             ELSE "reading"]
  /\ UNCHANGED <<opened, syncDelay, syncVars, faultVars, idMap, idOrder,
                 ridMap, blocks, lastUsedBid, seqNo, ridNo, files, pending,
                 nextId, compaction, opCount, nOpens, last>>

\* the stream has ended: the loop is left and what remains in the buffer is
\* dropped
ReadEnd ==
  /\ reader.status = "reading"
  /\ reader.pos = Len(reader.bytes)
  /\ reader' = [reader EXCEPT !.status = "done"]
  /\ UNCHANGED <<opened, syncDelay, syncVars, faultVars, idMap, idOrder,
                 ridMap, blocks, lastUsedBid, seqNo, ridNo, files, pending,
                 nextId, compaction, opCount, nOpens, last>>

InitRead ==
  /\ EngineInit
  /\ \E n \in 0..MaxChars :
       \E cs \in [1..n -> ReadChars], size \in 1..MaxBuffer :
         reader = NewReader(cs, size)

NextRead == ReadChunk \/ ReadEnd

SpecRead == InitRead /\ [][NextRead]_vars

(***************************************************************************)
(* The engine with the reads of the db object as calls of their own.       *)
(***************************************************************************)
NextCalls ==
  \/ Next
  \/ \E id \in Keys : has(id)
  \/ \E id \in Keys : get(id)

SpecCalls == Init /\ [][NextCalls]_vars

(***************************************************************************)
(* The engine whose process is killed between two calls instead of being   *)
(* closed: what writeSync has written is in the files, a queued fs.write   *)
(* that was not yet performed is lost with the process, and the directory  *)
(* is opened again by a new process.                                       *)
(***************************************************************************)
\* the id counter of the new process: let startId = Date.now(), read when
\* the module is loaded. The first process started at 0 (its first id was
\* 1) and the new one starts later, at 1 or more, whatever the number of
\* ids the first one generated; a start at nextId stands for every later one.
ProcessStartIds == 1..nextId
Kill ==
  /\ UNCHANGED reader
  /\ opened
  /\ opened' = FALSE
  /\ pending' = <<>>
  /\ nextId' \in ProcessStartIds
  /\ last' = Call("kill", "", <<>>, FALSE, <<>>, <<>>, 0, FALSE)
  /\ UNCHANGED <<syncDelay, syncVars, faultVars, idMap, idOrder, ridMap,
                 blocks, lastUsedBid, seqNo, ridNo, files, compaction,
                 opCount, nOpens>>

NextCrash ==
  \/ \E id \in Keys, v \in Values : setItem(id, v)
  \/ \E id \in Keys : deleteItem(id)
  \/ \E i \in 1..MaxPending : WriteComplete(i)
  \/ Kill
  \/ createDbState

SpecCrash == Init /\ [][NextCrash]_vars

(***************************************************************************)
(* Vocabulary of the properties.                                           *)
(***************************************************************************)
\* the step is a call set(k, ...) / delete(k) on an open engine
IsSet(k) ==
  opened /\ opCount' = opCount + 1 /\ last'.op = "set" /\ last'.id = k
IsDelete(k) ==
  opened /\ opCount' = opCount + 1 /\ last'.op = "delete" /\ last'.id = k
\* the step is a successful open of the directory
IsOpen == ~opened /\ opened'

\* what a caller sees of get(k): its kind and the record, property order aside
GetView(k) ==
  CHOOSE v \in {[kind |-> g.kind, value |-> ObjView(g.value)] :
                  g \in {getItem(k)}} : TRUE

NumField(text, f) == ObjGet(JsonParse(text), f).n

\* every line of every block file of the directory, parsed
AllLines ==
  UNION {{JsonParse(files[b].lines[i][1]) : i \in DOMAIN files[b].lines} :
         b \in DOMAIN files}
LinesOf(k) == {l \in AllLines : ObjGet(l, "id") = Str(k)}
MaxSeqLines(k) ==
  {l \in LinesOf(k) :
     \A m \in LinesOf(k) : ObjGet(m, "_seq").n <= ObjGet(l, "_seq").n}
JustOpened == opened /\ last.op = "open" /\ ~last.threw

RECURSIVE CountLines(_, _)
CountLines(fs, bs) ==
  IF bs = {} THEN 0
  ELSE LET b == CHOOSE x \in bs : TRUE
       IN  Len(fs[b].lines) + CountLines(fs, bs \ {b})
\* lines in the directory together with the lines queued for it
NLines(fs, pend) == CountLines(fs, DOMAIN fs) + Len(pend)

(***************************************************************************)
(* C1: after any sequence of set and delete, close and a new open of the   *)
(* same directory, has(k) and get(k) give for every key the result they    *)
(* gave immediately before close.                                          *)
(***************************************************************************)
C1_ReopenKeepsView ==
  [][IsOpen => \A k \in Keys : /\ hasItem(k)' = hasItem(k)
                               /\ GetView(k)' = GetView(k)]_vars

\* a reopen of a directory that holds a live record and a tombstone
C1_Witness ==
  /\ JustOpened /\ nOpens = 1
  /\ \E k \in Keys : hasItem(k)
  /\ \E l \in AllLines : ObjGet(l, "_oid") = Num(ItemDelete)

(***************************************************************************)
(* C2: after open, for every id on any line of any block file, get returns *)
(* the record of the line with the greatest _seq for that id, unless that  *)
(* line is a tombstone (_oid = 2), in which case has is false.             *)
(***************************************************************************)
C2_RecoveryPicksMaxSeq ==
  JustOpened =>
    \A k \in Keys :
      LinesOf(k) # {} =>
        \E l \in MaxSeqLines(k) :
          IF ObjGet(l, "_oid") = Num(ItemDelete)
          THEN ~hasItem(k)
          ELSE GetView(k) = [kind |-> "value", value |-> ObjView(l)]

\* a reopen that serves a record older than the newest line of its id
C2_Witness ==
  /\ JustOpened /\ nOpens = 1
  /\ \E k \in Keys :
       /\ hasItem(k)
       /\ \E l \in LinesOf(k) : ObjGet(l, "_seq").n > idMap[k]._seq

(***************************************************************************)
(* C3: mutations of one session take strictly increasing _seq: each set,   *)
(* and each delete of a present key, is written with exactly seqNo + 1,    *)
(* which becomes seqNo; seqNo never decreases while the engine is open, so *)
(* no two mutations of a session share a _seq.                             *)
(***************************************************************************)
C3_SeqStrictlyIncreases ==
  [][/\ (opened /\ opened') => seqNo' >= seqNo
     /\ \A k \in Keys :
          (IsSet(k) \/ (IsDelete(k) /\ hasItem(k))) =>
            /\ last'.text # <<>>
            /\ NumField(last'.text, "_seq") = seqNo + 1
            /\ seqNo' = seqNo + 1
            /\ last.text # <<>> =>
                 NumField(last.text, "_seq") < NumField(last'.text, "_seq")]_vars

\* a third mutation of a session, a delete following two other mutations
C3_Witness ==
  /\ opened /\ last.op = "delete" /\ last.text # <<>>
  /\ nOpens = 0 /\ seqNo = 3

(***************************************************************************)
(* C4: set(k, v) followed at once by get(k) returns a record equal to the  *)
(* one set returned: v's user fields with id = k, _oid = 1, _seq = seqNo   *)
(* after the set, and the key's _rid.                                      *)
(***************************************************************************)
C4_SetThenGet ==
  [][\A k \in Keys :
       IsSet(k) =>
         LET ret == last'.ret
             user == ObjKeys(last'.arg) \ {"id", "_seq", "_rid", "_oid"}
         IN  /\ ~last'.threw
             /\ GetView(k)' = [kind |-> "value", value |-> ObjView(ret)]
             /\ ObjKeys(ret) = user \cup {"id", "_seq", "_rid", "_oid"}
             /\ \A f \in user : ObjGet(ret, f) = ObjGet(last'.arg, f)
             /\ ObjGet(ret, "id") = Str(k)
             /\ ObjGet(ret, "_oid") = Num(1)
             /\ ObjGet(ret, "_seq") = Num(seqNo')
             /\ ObjGet(ret, "_rid") = Num(idMap'[k]._rid)]_vars

\* a set that replaced the record of a live key holding a non-ASCII value
C4_Witness ==
  /\ opened /\ last.op = "set" /\ last.had
  /\ ObjGet(last.ret, "name") = Str("e_acute")
  /\ seqNo >= 2

(***************************************************************************)
(* C5: immediately after open, seqNo is at least the greatest _seq over    *)
(* all lines of every block file (live, superseded and tombstones), and    *)
(* the first mutation after open is written with _seq = seqNo + 1.         *)
(***************************************************************************)
C5_SeqNoCoversEveryLine ==
  [][/\ IsOpen =>
          \A l \in AllLines' : seqNo' >= ObjGet(l, "_seq").n
     /\ \A k \in Keys :
          (JustOpened /\ (IsSet(k) \/ (IsDelete(k) /\ hasItem(k)))) =>
            NumField(last'.text, "_seq") = seqNo + 1]_vars

\* a reopen of a directory with lines, after which seqNo is below one of them
C5_Witness ==
  /\ JustOpened /\ nOpens = 1
  /\ \E l \in AllLines : seqNo < ObjGet(l, "_seq").n

(***************************************************************************)
(* C6: in every state of an open engine no entry of the id-map has         *)
(* _oid = 2: tombstones are never retained in the live index.              *)
(***************************************************************************)
C6_NoTombstoneInIdMap ==
  opened => \A k \in DOMAIN idMap : idMap[k]._oid # ItemDelete

\* an open engine whose id-map holds a tombstone read from a block
C6_Witness ==
  /\ opened /\ nOpens = 1
  /\ \E k \in DOMAIN idMap : idMap[k]._oid = ItemDelete

(***************************************************************************)
(* C7: in every state of an open engine (after open, set, delete and       *)
(* compaction) the id-map and the rid-map are mutually consistent:         *)
(* idMap[k]._rid = r exactly when ridMap[r].id = k, both maps hold the     *)
(* same entry (same _seq, bid and record) and no two keys share a _rid.    *)
(***************************************************************************)
C7_MapsConsistent ==
  opened =>
    /\ \A k \in DOMAIN idMap :
         /\ idMap[k]._rid \in DOMAIN ridMap
         /\ ridMap[idMap[k]._rid] = idMap[k]
    /\ \A r \in DOMAIN ridMap :
         /\ ridMap[r].id \in DOMAIN idMap
         /\ idMap[ridMap[r].id] = ridMap[r]
    /\ \A j, k \in DOMAIN idMap : idMap[j]._rid = idMap[k]._rid => j = k

\* a compaction has moved a live entry to its new block in the id-map
C7_Witness ==
  /\ opened /\ compaction.phase = "retire"
  /\ \E k \in DOMAIN idMap :
       /\ idMap[k].bid = compaction.newId
       /\ idMap[k]._rid \in DOMAIN ridMap
       /\ ridMap[idMap[k]._rid].bid = compaction.page

(***************************************************************************)
(* C8: set on a key for which has is false takes _rid = ridNo + 1 and      *)
(* increments ridNo; set on a key for which has is true keeps the key's    *)
(* _rid and leaves ridNo unchanged.                                        *)
(***************************************************************************)
C8_RidAssignment ==
  [][\A k \in Keys :
       IsSet(k) =>
         IF hasItem(k)
         THEN /\ ObjGet(last'.ret, "_rid") = Num(idMap[k]._rid)
              /\ ridNo' = ridNo
         ELSE /\ ObjGet(last'.ret, "_rid") = Num(ridNo + 1)
              /\ ridNo' = ridNo + 1]_vars

\* a set, after a reopen, of a key that was deleted before the reopen
C8_Witness ==
  /\ opened /\ nOpens = 1 /\ last.op = "set" /\ ~last.had
  /\ \E l \in AllLines :
       /\ ObjGet(l, "id") = Str(last.id)
       /\ ObjGet(l, "_oid") = Num(ItemDelete)
       /\ ObjGet(l, "_rid") = ObjGet(last.ret, "_rid")

(***************************************************************************)
(* C9: delete of a live key removes it from both maps, increments seqNo by *)
(* exactly one and appends exactly one line (written at once on the        *)
(* synchronous path, queued as one write on the asynchronous path), which  *)
(* has _oid = 2, the _rid of the deleted entry, _seq = the new seqNo, and  *)
(* no field beyond id and the three reserved ones.                         *)
(***************************************************************************)
C9_DeleteOfLiveKey ==
  [][\A k \in Keys :
       (IsDelete(k) /\ hasItem(k)) =>
         /\ ~hasItem(k)'
         /\ GetView(k)'.kind = "undefined"
         /\ k \notin DOMAIN idMap'
         /\ \A r \in DOMAIN ridMap' : ridMap'[r].id # k
         /\ idMap[k]._rid \notin DOMAIN ridMap'
         /\ seqNo' = seqNo + 1
         /\ NLines(files', pending') = NLines(files, pending) + 1
         /\ IF syncDelay = 0
            THEN /\ pending' = pending
                 /\ LET ls == files'[last'.bid].lines
                    IN  ls[Len(ls)][Len(ls[Len(ls)])] = last'.text
            ELSE pending' = Append(pending,
                                   [bid |-> last'.bid, text |-> last'.text])
         /\ ObjView(JsonParse(last'.text)) =
              [f \in {"id", "_oid", "_rid", "_seq"} |->
                 CASE f = "id" -> Str(k)
                   [] f = "_oid" -> Num(2)
                   [] f = "_rid" -> Num(idMap[k]._rid)
                   [] f = "_seq" -> Num(seqNo')]]_vars

\* a delete of a live key whose tombstone went to another block than its record
C9_Witness ==
  /\ opened /\ last.op = "delete" /\ last.had /\ last.text # <<>>
  /\ Len(blocks) = 2 /\ last.bid = blocks[2].bid

(***************************************************************************)
(* C10: delete of an id for which has is false, also after opening a       *)
(* directory whose blocks hold tombstones, appends no line and leaves      *)
(* seqNo, ridNo, both maps and every block's size and staleBytes as they   *)
(* were.                                                                   *)
(***************************************************************************)
C10_DeleteOfAbsentKey ==
  [][\A k \in Keys :
       (IsDelete(k) /\ ~hasItem(k)) =>
         /\ last'.text = <<>>
         /\ UNCHANGED <<files, pending, seqNo, ridNo, idMap, ridMap,
                        blocks>>]_vars

\* a delete, after a reopen, of a key deleted before it, that wrote a line
C10_Witness ==
  /\ opened /\ nOpens = 1 /\ last.op = "delete" /\ ~last.had
  /\ last.text # <<>>

(***************************************************************************)
(* Vocabulary of the compaction properties.                                *)
(***************************************************************************)
\* the step belongs to a compactPage call: its start or one of its later
\* stretches between two awaits
CompactionStep == compaction' # compaction
\* a compactPage call is between its start and its return
Compacting == compaction.phase # "idle"

(***************************************************************************)
(* C11: compaction of a block with no sequence filter is semantically a    *)
(* no-op: no step of a compaction changes has(k) or get(k) of any key,     *)
(* every entry of the id-map keeps its _seq and _rid, and seqNo and ridNo  *)
(* are unchanged.                                                          *)
(***************************************************************************)
C11_CompactionIsNoOp ==
  [][CompactionStep =>
       /\ seqNo' = seqNo
       /\ ridNo' = ridNo
       /\ \A k \in Keys :
            /\ hasItem(k)' = hasItem(k)
            /\ GetView(k)' = GetView(k)
            /\ k \in DOMAIN idMap =>
                 /\ k \in DOMAIN idMap'
                 /\ idMap'[k]._seq = idMap[k]._seq
                 /\ idMap'[k]._rid = idMap[k]._rid]_vars

\* a compaction has merged its rewritten entries after a key it had already
\* rewritten was deleted
C11_Witness ==
  /\ compaction.phase = "retire"
  /\ last.op = "delete" /\ last.had /\ ~last.threw
  /\ last.id \in compaction.visited

\* the step is a successful set(k, ...) made while a compaction is between
\* its start and its return, k being live with its entry in the compacted
\* block when the compaction reached it
SetDuringCompaction(k) ==
  /\ IsSet(k) /\ ~last'.threw
  /\ Compacting
  /\ hasItem(k)
  /\ (idMap[k].bid = compaction.page \/ k \in compaction.visited)

\* what such a set leaves: get(k) is the new value with a higher _seq, in the
\* block the set wrote to
SetResult(k) ==
  /\ GetView(k)'.kind = "value"
  /\ GetView(k)'.value["name"] = ObjGet(last'.arg, "name")
  /\ idMap'[k]._seq = seqNo'
  /\ idMap'[k]._seq > idMap[k]._seq
  /\ idMap'[k].bid = last'.bid

\* a later step of the compaction keeps every entry that is newer than the
\* one the compaction rewrote for its key
NewerEntriesKept ==
  (CompactionStep /\ Compacting) =>
    \A k \in DOMAIN idMap :
      (/\ idMap[k].bid # compaction.page
       /\ MapHas(compaction.newMap, k) => idMap[k]._seq > compaction.newMap.m[k]._seq)
      => /\ k \in DOMAIN idMap'
         /\ idMap'[k] = idMap[k]

(***************************************************************************)
(* C12 as claimed: a set(K, v') made after the compaction of block B has   *)
(* started and before it completes, K's live entry having been in B,       *)
(* leaves get(K) = v' with a higher _seq and K's entry in the block the    *)
(* set wrote to, which is neither B nor B's replacement, and the rest of   *)
(* the compaction keeps that entry.                                        *)
(***************************************************************************)
C12_SetDuringCompaction_AsClaimed ==
  [][/\ \A k \in Keys :
          SetDuringCompaction(k) =>
            /\ SetResult(k)
            /\ last'.bid \notin {compaction.page, compaction.newId}
     /\ NewerEntriesKept]_vars

(***************************************************************************)
(* C12, amended: the same, except that the block the set wrote to is never *)
(* B, and is B's replacement only when the set came after the merge step   *)
(* had entered the replacement in the registry.                            *)
(***************************************************************************)
C12_SetDuringCompaction ==
  [][/\ \A k \in Keys :
          SetDuringCompaction(k) =>
            /\ SetResult(k)
            /\ last'.bid # compaction.page
            /\ last'.bid = compaction.newId => compaction.phase = "retire"
     /\ NewerEntriesKept]_vars

\* a compaction has merged its rewritten entries after a key it had rewritten
\* was set again: the entry of the set is the one the id-map holds
C12_Witness ==
  /\ compaction.phase = "retire"
  /\ last.op = "set" /\ last.had /\ ~last.threw
  /\ MapHas(compaction.newMap, last.id)
  /\ idMap[last.id]._seq > compaction.newMap.m[last.id]._seq
  /\ idMap[last.id].bid = last.bid
  /\ last.bid \notin {compaction.page, compaction.newId}

\* the bids of the blocks of a registry whose locked flag is set
LockedBids(bs) == {bs[i].bid : i \in {j \in DOMAIN bs : bs[j].locked}}

(***************************************************************************)
(* C13: a block whose locked flag is true is never returned by             *)
(* getFreeBlock and is never handed a line: every set or delete that       *)
(* writes a line hands it to the block getFreeBlock returned, which is     *)
(* unlocked in the registry and differs from every locked block; on the    *)
(* synchronous path no step changes the file of a locked block, and on the *)
(* asynchronous path no write is queued for one.                           *)
(***************************************************************************)
C13_LockedBlockNotWritten ==
  [][/\ getFreeBlock(blocks, lastUsedBid, nextId).bid \notin LockedBids(blocks)
     /\ \A k \in Keys :
          ((IsSet(k) \/ IsDelete(k)) /\ last'.text # <<>>) =>
            /\ last'.bid = getFreeBlock(blocks, lastUsedBid, nextId).bid
            /\ last'.bid \notin LockedBids(blocks) \cup LockedBids(blocks')
            /\ \E i \in DOMAIN blocks' : blocks'[i].bid = last'.bid
     /\ syncDelay = 0 =>
          \A b \in LockedBids(blocks) : files'[b] = files[b]
     /\ Len(pending') > Len(pending) =>
          pending'[Len(pending')].bid \notin LockedBids(blocks')]_vars

\* a set made while block 1, the only other block, is locked by a
\* compaction: its line went to a new block
C13_Witness ==
  /\ opened /\ compaction.phase = "write"
  /\ last.op = "set" /\ last.text # <<>>
  /\ LockedBids(blocks) = {compaction.page}
  /\ last.bid # compaction.page
  /\ Len(files[last.bid].lines) + Len(pending) > 0

\* the bids of the registry
RegistryBids == {blocks[i].bid : i \in DOMAIN blocks}

(***************************************************************************)
(* C14: in every reachable state (after open, every set, every delete and  *)
(* every compaction) the bid of every entry of the id-map and of the       *)
(* rid-map names a BlockInfo that is in the registry, and no set or delete *)
(* raises the internal 'block missing' error.                              *)
(***************************************************************************)
C14_EntriesNameRegisteredBlocks ==
  /\ \A k \in DOMAIN idMap : idMap[k].bid \in RegistryBids
  /\ \A r \in DOMAIN ridMap : ridMap[r].bid \in RegistryBids
  /\ last.op \in {"set", "delete"} => ~last.threw

\* a compaction has replaced its block in the registry while an entry of the
\* rid-map still names it
C14_Witness ==
  /\ compaction.phase = "retire"
  /\ compaction.page \notin RegistryBids
  /\ \E r \in DOMAIN ridMap : ridMap[r].bid = compaction.page

\* the step is an attempt to open the directory
IsOpenAttempt == nOpens' = nOpens + 1
\* every line of every block file is one JSON text with the reserved fields
LinesWellFormed ==
  \A b \in DOMAIN files : \A i \in DOMAIN files[b].lines :
    /\ Len(files[b].lines[i]) = 1
    /\ LET json == JsonParse(files[b].lines[i][1])
       IN  /\ missingAndTypeCheck(json, "id", "s")
           /\ missingAndTypeCheck(json, "_oid", "n")
           /\ missingAndTypeCheck(json, "_rid", "n")
           /\ missingAndTypeCheck(json, "_seq", "n")

(***************************************************************************)
(* C15: with dataSyncDelay = 0, when the process is killed between two     *)
(* mutations after N set and delete calls, the next open succeeds, the     *)
(* highest _seq on a surviving line is at most N, every surviving line     *)
(* parses, and no key is reported live while a tombstone with a higher     *)
(* _seq for it is on a surviving line.                                     *)
(***************************************************************************)
C15_KillBetweenSyncWrites ==
  [][(IsOpenAttempt /\ last.op = "kill" /\ syncDelay = 0) =>
       /\ opened'
       /\ ~last'.threw
       /\ LinesWellFormed'
       /\ \A l \in AllLines' : ObjGet(l, "_seq").n <= opCount'
       /\ \A k \in Keys :
            hasItem(k)' =>
              \A l \in LinesOf(k)' :
                ObjGet(l, "_oid") = Num(ItemDelete) =>
                  ObjGet(l, "_seq").n < idMap'[k]._seq]_vars

\* an open, after a kill on the synchronous path (every open of SpecCrash
\* follows a kill), of a directory that holds a live record written after a
\* tombstone of its key
C15_Witness ==
  /\ JustOpened /\ nOpens = 1 /\ syncDelay = 0 /\ opCount = MaxOps
  /\ \E k \in Keys :
       /\ hasItem(k)
       /\ \E l \in LinesOf(k) : ObjGet(l, "_oid") = Num(ItemDelete)

\* the line text is in the file of block b
InFile(fs, b, text) ==
  /\ b \in DOMAIN fs
  /\ \E i \in DOMAIN fs[b].lines :
       \E j \in DOMAIN fs[b].lines[i] : fs[b].lines[i][j] = text
\* the step is a close() of an open engine
IsClose == opened /\ ~opened' /\ last'.op = "close"

(***************************************************************************)
(* C16: close() waits for the appends in flight: every line whose append   *)
(* was started by a set or delete that returned before close() was called  *)
(* is in its block file when close() resolves; none is lost to a handle    *)
(* that close closed first.                                                *)
(***************************************************************************)
C16_CloseWaitsForAppends ==
  [][IsClose =>
       \A i \in DOMAIN pending :
         InFile(files', pending[i].bid, pending[i].text)]_vars

\* a closed engine whose id-map holds a record that is in no file
C16_Witness ==
  /\ ~opened /\ last.op = "close" /\ ~last.threw /\ nOpens = 0
  /\ syncDelay # 0
  /\ \E k \in DOMAIN idMap :
       ~InFile(files, idMap[k].bid, idMap[k].record)

\* the step is a call of has, get, set or delete on a closed engine (a call
\* that repeats the last one and its outcome is a stuttering step)
CallOnClosed ==
  /\ ~opened
  /\ last'.op \in {"has", "get", "set", "delete"}
  /\ (last' # last \/ opCount' # opCount)

IsSecondClose == ~opened /\ last'.op = "close" /\ last' # last

UnsyncedOf(u, b) == IF b \in DOMAIN u THEN u[b] ELSE 0
SyncsOf(log, b) == IF b \in DOMAIN log THEN log[b] ELSE <<>>

(***************************************************************************)
(* C19: with syncDelay = 0 every append is a synchronous write followed at *)
(* once, on the same call path, by a file-data sync of that block: when    *)
(* the set or delete that appended a line returns, the line is in the file *)
(* of its block, a data sync of that block has been made, and no line of   *)
(* the block is left unsynced.                                             *)
(***************************************************************************)
C19_SyncWriteIsSynced ==
  [][\A k \in Keys :
       ((IsSet(k) \/ IsDelete(k)) /\ syncDelay = 0 /\ last'.text # <<>>) =>
         /\ InFile(files', last'.bid, last'.text)
         /\ Len(SyncsOf(syncLog', last'.bid)) =
              Len(SyncsOf(syncLog, last'.bid)) + 1
         /\ UnsyncedOf(unsynced', last'.bid) = 0]_vars

\* a set on the synchronous path has returned: its line is in the file and
\* no data sync of the block was ever made
C19_Witness ==
  /\ opened /\ syncDelay = 0 /\ last.op = "set" /\ ~last.threw
  /\ InFile(files, last.bid, last.text)
  /\ UnsyncedOf(unsynced, last.bid) > 0
  /\ SyncsOf(syncLog, last.bid) = <<>>

(***************************************************************************)
(* C20: with syncDelay n > 0 the file-data syncs of one block are          *)
(* throttled: any two syncs of the same block are at least n milliseconds  *)
(* apart, so a burst of appends to one block within n milliseconds causes  *)
(* at most one sync.                                                       *)
(***************************************************************************)
C20_SyncsAreThrottled ==
  syncDelay > 0 =>
    \A b \in DOMAIN syncLog :
      \A i, j \in DOMAIN syncLog[b] :
        i < j => syncLog[b][j] - syncLog[b][i] >= syncDelay

\* two appends to one block were performed less than syncDelay apart and
\* each was followed by a data sync
C20_Witness ==
  /\ syncDelay > 0
  /\ \E b \in DOMAIN syncLog :
       /\ Len(syncLog[b]) >= 2
       /\ syncLog[b][2] - syncLog[b][1] < syncDelay
       /\ syncLog[b][2] > syncLog[b][1]

\* the size the registry holds for block b (0 if it holds none)
SizeOf(bs, b) == IF FindBlock(bs, b) = 0 THEN 0 ELSE bs[FindBlock(bs, b)].size
\* the step performs queued writes that fail: they leave the queue and no
\* file changes
QueuedWritesFail ==
  /\ Len(pending') < Len(pending)
  /\ files' = files

C22_SizeIsFileLength ==
  (opened /\ pending = <<>>) =>
    \A i \in DOMAIN blocks :
      blocks[i].bid \in DOMAIN files =>
        blocks[i].size = FileSize(files[blocks[i].bid])

\* a set on the synchronous path has written its line: the size of its
\* block is smaller than the file
C22_Witness ==
  /\ opened /\ syncDelay = 0 /\ nOpens = 0
  /\ last.op = "set" /\ ~last.threw
  /\ InFile(files, last.bid, last.text)
  /\ SizeOf(blocks, last.bid) < FileSize(files[last.bid])

(***************************************************************************)
(* C23: maxBlockSize is a soft cap: no block's size exceeds maxBlockSize   *)
(* by more than the size of one record. The record allowed for is the      *)
(* longest line any file holds or any append in flight carries, newline    *)
(* included.                                                               *)
(***************************************************************************)
RecordBytes ==
  UNION {UNION {{TextBytes(files[b].lines[i][j]) + 1 :
                   j \in DOMAIN files[b].lines[i]} :
                i \in DOMAIN files[b].lines} :
         b \in DOMAIN files}
  \cup {TextBytes(pending[i].text) + 1 : i \in DOMAIN pending}
LongestRecord ==
  IF RecordBytes = {} THEN 0
  ELSE CHOOSE n \in RecordBytes : \A m \in RecordBytes : m <= n

C23_SoftCap ==
  opened =>
    \A i \in DOMAIN blocks :
      blocks[i].size <= (MaxBlockSize - 1) + LongestRecord

\* two long accented records went into one block while its counter was below
\* the cap; reopened, the block's size is the file's, more than one record
\* above the cap
C23_Witness ==
  /\ opened /\ nOpens = 1 /\ last.op = "open" /\ ~last.threw
  /\ \E i \in DOMAIN blocks :
       /\ blocks[i].bid \in DOMAIN files
       /\ Len(files[blocks[i].bid].lines) >= 2
       /\ blocks[i].size = FileSize(files[blocks[i].bid])
       /\ blocks[i].size > MaxBlockSize + LongestRecord

\* the file holds an empty line
HasEmptyLine(f) == \E i \in DOMAIN f.lines : f.lines[i] = <<>>
\* the line is one JSON text whose id is a string and whose _oid, _rid and
\* _seq are numbers
RecordLoads(line) ==
  /\ Len(line) = 1
  /\ LET json == JsonParse(line[1])
     IN  /\ ObjGet(json, "id").t = "s"
         /\ \A k \in {"_oid", "_rid", "_seq"} : ObjGet(json, k).t = "n"
\* line i of the file is an invalid record that is read before any empty line
InvalidReadFirst(f, i) ==
  /\ i \in DOMAIN f.lines
  /\ f.lines[i] # <<>> /\ ~RecordLoads(f.lines[i])
  /\ \A j \in 1..(i - 1) : f.lines[j] # <<>>
\* the step is an open that fails with the error named and returns no engine
OpenFails ==
  /\ last'.op = "open" /\ last'.threw /\ ~opened'
  /\ UNCHANGED <<idMap, idOrder, ridMap, blocks, seqNo, ridNo, files>>
OpenFailsWith(kind) == OpenFails /\ last'.ret = LoadError(kind)

(***************************************************************************)
(* C24 as stated: if any block file of the directory contains an empty     *)
(* line, open fails with the empty-line error and returns no engine.       *)
(***************************************************************************)
C24_EmptyLine_AsClaimed ==
  [][(IsOpenAttempt /\ \E b \in BlockFiles : HasEmptyLine(files[b]))
       => OpenFailsWith("EmptyLine")]_vars

(***************************************************************************)
(* C24: if any block file of the directory contains an empty line, open    *)
(* fails and returns no engine. The error is the empty-line error or the   *)
(* invalid-record error: the invalid-record error only if some file holds  *)
(* an invalid record that is read before any empty line of that file, and  *)
(* the empty-line error whenever there is no such record.                  *)
(***************************************************************************)
C24_EmptyLine ==
  [][(IsOpenAttempt /\ \E b \in BlockFiles : HasEmptyLine(files[b]))
       => /\ OpenFails
          /\ \/ last'.ret = LoadError("EmptyLine")
             \/ /\ last'.ret = LoadError("InvalidRecord")
                /\ \E b \in BlockFiles :
                     \E i \in DOMAIN files[b].lines :
                       InvalidReadFirst(files[b], i)]_vars

\* an open has failed with the empty-line error on a file whose second line
\* is empty
C24_Witness ==
  /\ ~opened /\ nOpens = 1
  /\ last.op = "open" /\ last.threw /\ last.ret = LoadError("EmptyLine")
  /\ blocks = <<>>
  /\ Len(files[1].lines) = 2
  /\ RecordLoads(files[1].lines[1])
  /\ files[1].lines[2] = <<>>

\* the line is a valid record by the rule of the specification: one JSON
\* text whose id is a string or a number and whose _oid, _rid and _seq are
\* integers
ClaimedValid(line) ==
  /\ Len(line) = 1
  /\ LET json == JsonParse(line[1])
     IN  /\ ObjGet(json, "id").t \in {"s", "n"}
         /\ \A k \in {"_oid", "_rid", "_seq"} :
              ObjGet(json, k).t = "n" /\ ObjGet(json, k).s = ""

(***************************************************************************)
(* C26: loading a block line fails with the invalid-record error if and    *)
(* only if JSON parsing fails or one of id, _oid, _rid, _seq is missing or *)
(* of the wrong type (id a string or a number, the metadata fields         *)
(* integers): an open of a directory without empty lines fails, with that  *)
(* error, exactly when some line is not a valid record by this rule. In    *)
(* particular the lines written by the engine load.                        *)
(***************************************************************************)
C26_InvalidRecordRule ==
  [][(IsOpenAttempt /\ \A b \in BlockFiles : ~HasEmptyLine(files[b]))
       => (OpenFailsWith("InvalidRecord")
             <=> \E b \in BlockFiles : \E i \in DOMAIN files[b].lines :
                   ~ClaimedValid(files[b].lines[i]))]_vars

\* the engine, opened on an empty directory, accepted set(7, ...), wrote its
\* line and was closed; the reopen fails on that line
C26_Witness ==
  /\ ~opened /\ nOpens = 1 /\ blocks # <<>>
  /\ last.op = "open" /\ last.threw /\ last.ret = LoadError("InvalidRecord")
  /\ \A b \in BlockFiles : \A i \in DOMAIN files[b].lines :
       ClaimedValid(files[b].lines[i])
  /\ \E b \in BlockFiles : \E i \in DOMAIN files[b].lines :
       ObjGet(JsonParse(files[b].lines[i][1]), "id") = Num(7)

\* the step is a set or delete that handed a line to appendToBlock, hence
\* called getFreeBlock
CallsGetFreeBlock ==
  /\ opened /\ opCount' = opCount + 1
  /\ last'.op \in {"set", "delete"} /\ ~last'.threw /\ last'.text # <<>>
\* the block at 0-based index i of the registry is unlocked and under the cap
Qualifies(bs, i) ==
  /\ i \in 0..(Len(bs) - 1)
  /\ ~bs[i + 1].locked
  /\ bs[i + 1].size < MaxBlockSize
LaterQualifying(bs, lub) == {i \in (lub + 1)..(Len(bs) - 1) : Qualifies(bs, i)}

NoneQualifies ==
  /\ ~Qualifies(blocks, lastUsedBid)
  /\ LaterQualifying(blocks, lastUsedBid) = {}

(***************************************************************************)
(* C28: getFreeBlock, step 3. When no existing block qualifies, exactly    *)
(* one new BlockInfo with size = 0, staleBytes = 0, locked = false and a   *)
(* bid different from every bid in the registry is appended to the         *)
(* registry, that bid is returned, and lastUsedBid is set to the new       *)
(* block's index. (The size of the new block is read before the line of    *)
(* the call is counted in it.)                                             *)
(***************************************************************************)
C28_NewBlockIsFresh ==
  [][(CallsGetFreeBlock /\ NoneQualifies) =>
       /\ Len(blocks') = Len(blocks) + 1
       /\ \A i \in DOMAIN blocks : blocks'[i].bid = blocks[i].bid
       /\ lastUsedBid' = Len(blocks)
       /\ blocks'[Len(blocks')].bid = last'.bid
       /\ ~blocks'[Len(blocks')].locked
       /\ blocks'[Len(blocks')].staleBytes = 0
       /\ blocks'[Len(blocks')].size = TextLength(last'.text)
       /\ \A i \in DOMAIN blocks : blocks[i].bid # last'.bid]_vars

\* after a restart of the process getFreeBlock has appended a block whose
\* bid is the bid of a block already in the registry
C28_Witness ==
  /\ opened /\ nOpens = 1 /\ last.op = "set" /\ ~last.threw
  /\ Len(blocks) = 3 /\ lastUsedBid = 2
  /\ blocks[3].bid = last.bid
  /\ \E i \in 1..2 : blocks[i].bid = last.bid

\* the entry the load of block file b holds for key k: the last line of the
\* file with that id, as [seq, found]
LoadedSeq(b, k) ==
  LET f == files[b]
      at == {i \in DOMAIN f.lines :
               ObjGet(JsonParse(f.lines[i][1]), "id") = Str(k)}
  IN  IF at = {} THEN [found |-> FALSE, seq |-> 0]
      ELSE [found |-> TRUE,
            seq |-> NumField(f.lines[CHOOSE i \in at :
                                       \A j \in at : j <= i][1], "_seq")]
\* the position of block b in the order in which the maps were merged: the
\* order of the registry the open returns
MergedAt(bs, b) == CHOOSE i \in DOMAIN bs : bs[i].bid = b

(***************************************************************************)
(* C29: mergeBlockMaps keeps an existing entry only when its _seq is       *)
(* strictly greater than the incoming entry's: after the merge of the maps *)
(* loaded from the block files the id-map holds, for each key that some    *)
(* map holds, an entry of maximal _seq among all the maps and, among the   *)
(* maps whose entry has that _seq, the entry of the map merged last; it    *)
(* holds no other key.                                                     *)
(***************************************************************************)
C29_MergeKeepsNewest ==
  [][IsOpen =>
       \A k \in Keys :
         LET held == {b \in BlockFiles : LoadedSeq(b, k).found}
         IN  /\ (k \in DOMAIN idMap') <=> held # {}
             /\ held # {} =>
                  \E b \in held :
                    /\ idMap'[k].bid = b
                    /\ idMap'[k]._seq = LoadedSeq(b, k).seq
                    /\ \A c \in held :
                         \/ LoadedSeq(c, k).seq < LoadedSeq(b, k).seq
                         \/ /\ LoadedSeq(c, k).seq = LoadedSeq(b, k).seq
                            /\ MergedAt(blocks', c) <= MergedAt(blocks', b)]_vars

\* three block files hold key "a" with _seq 2, 2 and 1; opened, the id-map
\* holds the entry of the second of them in the order of the merge, the
\* later of the two with _seq 2, although the map with _seq 1 came last
C29_Witness ==
  /\ opened /\ nOpens = 1 /\ last.op = "open" /\ ~last.threw
  /\ Len(blocks) = 3
  /\ LoadedSeq(blocks[1].bid, "a") = [found |-> TRUE, seq |-> 2]
  /\ LoadedSeq(blocks[2].bid, "a") = [found |-> TRUE, seq |-> 2]
  /\ LoadedSeq(blocks[3].bid, "a") = [found |-> TRUE, seq |-> 1]
  /\ idMap["a"].bid = blocks[2].bid
  /\ idMap["a"]._seq = 2

\* staleBytes of the block bid in the registry bs, 0 when it is not there
StaleOf(bs, b) ==
  IF FindBlock(bs, b) = 0 THEN 0 ELSE bs[FindBlock(bs, b)].staleBytes
\* the step is a set or a delete of key k that displaces its live entry
Displaces(k) ==
  /\ IsSet(k) \/ IsDelete(k)
  /\ hasItem(k)
  /\ ~last'.threw /\ last'.text # <<>>

(***************************************************************************)
(* C30: incremental stale accounting. A set that replaces a live key adds  *)
(* the displaced line's length plus one (its newline) to staleBytes of the *)
(* displaced entry's block. A delete adds the displaced line's length plus *)
(* one to staleBytes of its block and the tombstone line's own length plus *)
(* one to staleBytes of the block the tombstone is written to. No other    *)
(* block's staleBytes changes. Lengths are taken as record.length.         *)
(***************************************************************************)
C30_IncrementalStale ==
  [][\A k \in Keys :
       Displaces(k) =>
         \A b \in RegistryBids \cup {last'.bid} :
           StaleOf(blocks', b) =
             StaleOf(blocks, b)
             + (IF b = idMap[k].bid
                THEN TextLength(idMap[k].record) + 1 ELSE 0)
             + (IF IsDelete(k) /\ b = last'.bid
                THEN TextLength(last'.text) + 1 ELSE 0)]_vars

\* a delete has displaced the only line of block 1 and written its tombstone
\* to the same block: staleBytes is the record.length of the displaced line,
\* without its newline and without the tombstone's line
C30_Witness ==
  /\ opened /\ syncDelay = 0 /\ nOpens = 0 /\ opCount = 2
  /\ last.op = "delete" /\ last.had /\ ~last.threw
  /\ Len(blocks) = 1 /\ last.bid = blocks[1].bid
  /\ Len(files[last.bid].lines) = 2
  /\ files[last.bid].lines[2] = <<last.text>>
  /\ blocks[1].staleBytes = TextLength(files[last.bid].lines[1][1])

\* the positions of the break characters of the text, and its k-th
\* newline-terminated line
BreaksOf(cs) == {i \in DOMAIN cs : cs[i] = "nl"}
NthBreak(cs, k) ==
  CHOOSE i \in BreaksOf(cs) : Cardinality({j \in BreaksOf(cs) : j < i}) = k - 1
TerminatedLine(cs, k) ==
  SubSeq(cs, (IF k = 1 THEN 0 ELSE NthBreak(cs, k - 1)) + 1,
         NthBreak(cs, k) - 1)
\* the text has an empty line
HasEmpty(cs) ==
  \E k \in 1..Cardinality(BreaksOf(cs)) : TerminatedLine(cs, k) = <<>>

(***************************************************************************)
(* C25: readBlock yields, in file order and numbered 1, 2, 3, ..., exactly *)
(* the newline-terminated lines of the block, discards an unterminated     *)
(* trailing fragment without error, and yields the same sequence for every *)
(* read buffer size: on a file without empty line the call ends without    *)
(* error and what it has yielded is the sequence of the terminated lines   *)
(* of the text, which does not depend on the buffer size; while it reads,  *)
(* what it has yielded is a prefix of that sequence.                       *)
(***************************************************************************)
C25_ReadBlockLines ==
  LET n == Cardinality(BreaksOf(reader.text))
      expected == [k \in 1..n |->
                     [line |-> TerminatedLine(reader.text, k), lineNo |-> k]]
  IN  /\ reader.status = "done" => reader.out = expected
      /\ reader.status = "threw" => HasEmpty(reader.text)
      /\ reader.status \in {"reading", "threw"} =>
           /\ Len(reader.out) <= n
           /\ reader.out = SubSeq(expected, 1, Len(reader.out))

\* a file of one line, a two-byte character, followed by an unterminated
\* fragment has been read to its end with a buffer of one byte, which cuts
\* the character in two: the line was yielded whole, with number 1, and the
\* fragment was dropped
C25_Witness ==
  /\ reader.status = "done"
  /\ reader.bufferSize = 1
  /\ reader.text = <<"e9", "nl", "x">>
  /\ reader.out = <<[line |-> <<"e9">>, lineNo |-> 1]>>

\* the bytes of the lines of the live entries of the id-map whose bid is b,
\* each with its newline
RECURSIVE LiveBytesOf(_, _, _)
LiveBytesOf(im, ks, b) ==
  IF ks = {} THEN 0
  ELSE LET k == CHOOSE x \in ks : TRUE
       IN  (IF im[k].bid = b /\ im[k]._oid # ItemDelete
            THEN TextBytes(im[k].record) + 1 ELSE 0)
           + LiveBytesOf(im, ks \ {k}, b)

(***************************************************************************)
(* C31: full recompute. Immediately after open, every block's staleBytes   *)
(* equals its size minus the sum, over the live index entries whose bid is *)
(* that block, of the entry's line length plus one newline; a block whose  *)
(* file holds only live lines has staleBytes = 0.                          *)
(***************************************************************************)
C31_FullRecompute ==
  JustOpened =>
    \A i \in DOMAIN blocks :
      blocks[i].staleBytes =
        blocks[i].size - LiveBytesOf(idMap, DOMAIN idMap, blocks[i].bid)

\* the directory holds one block whose only line is the live record of one
\* key; reopened, the block's staleBytes is not 0
C31_Witness ==
  /\ JustOpened /\ nOpens = 1
  /\ Len(blocks) = 1
  /\ Len(files[blocks[1].bid].lines) = 1
  /\ Cardinality(DOMAIN idMap) = 1
  /\ \A k \in DOMAIN idMap : hasItem(k) /\ idMap[k].bid = blocks[1].bid
  /\ blocks[1].size = FileSize(files[blocks[1].bid])
  /\ blocks[1].staleBytes > 0

(***************************************************************************)
(* C32: when the compaction of block B completes, B is no longer in the    *)
(* registry, exactly one replacement block with locked = FALSE and         *)
(* staleBytes = 0 has been added to it, no entry of the id-map has         *)
(* bid = B, and the file of B carries the name <B>.old. The registry and   *)
(* the id-map are judged at the step that swaps the blocks and again at    *)
(* the step that ends the compaction, the file at the end.                 *)
(***************************************************************************)
BidsOf(bs) == {bs[i].bid : i \in DOMAIN bs}

SameButBid(e1, e2) ==
  /\ e1.id = e2.id /\ e1._seq = e2._seq /\ e1._rid = e2._rid
  /\ e1._oid = e2._oid /\ e1.record = e2.record

C33_ReplacementReloads ==
  [][/\ (compaction.phase = "rename" /\ compaction'.phase = "merge") =>
          LET f == files'[compaction.newId]
              loaded == loadBlock(compaction.newId, f)
              written == compaction.newMap.m
          IN  /\ f.frag = <<>>
              /\ Len(f.lines) = Cardinality(DOMAIN written)
              /\ loaded.ok
              /\ \A k \in DOMAIN written :
                   /\ k \in DOMAIN loaded.map.m
                   /\ SameButBid(loaded.map.m[k], written[k])
     /\ (IsOpenAttempt /\ compaction.runs = 1 /\ syncDelay = 0) =>
          /\ opened'
          /\ \A k \in Keys : GetView(k)' = GetView(k)]_vars

\* the engine was reopened after a compaction that had rewritten the only
\* record of the directory: the record is in no file the open reads
C33_Witness ==
  /\ JustOpened /\ nOpens = 1 /\ syncDelay = 0
  /\ compaction.phase = "idle" /\ compaction.runs = 1
  /\ \E b \in DOMAIN files : files[b].ext = "page" /\ FileSize(files[b]) > 0
  /\ DOMAIN idMap = {}

(***************************************************************************)
(* The compaction sweep: the callback of the interval timer that open      *)
(* arms, run on the blocks of the open engine. It takes the first block    *)
(* whose size exceeds maxBlockSize * staleDataThreshold and calls          *)
(* compactPage on it.                                                      *)
(***************************************************************************)
\* staleDataThreshold, in tenths (the default is 0.1)
StaleDataThresholdTenths == 1

\* pages.find((page) => page.size > maxPageSize * staleDataThreshold):
\* the index of the first match, 0 if none
SweepFind(bs) ==
  LET big == {i \in DOMAIN bs :
                bs[i].size * 10 > MaxBlockSize * StaleDataThresholdTenths}
  IN  IF big = {} THEN 0 ELSE CHOOSE i \in big : \A j \in big : i <= j

\* one firing of the timer: if (page) compactPage(map, pages, page)
Sweep ==
  /\ SweepFind(blocks) # 0
  /\ CompactStart(SweepFind(blocks))

NextSweep ==
  \/ \E id \in Keys, v \in Values : setItem(id, v)
  \/ \E id \in Keys : deleteItem(id)
  \/ \E i \in 1..MaxPending : WriteComplete(i)
  \/ closeDb
  \/ createDbState
  \/ Sweep
  \/ CompactWrite
  \/ CompactRename
  \/ CompactMerge
  \/ CompactRetire

\* the timer keeps firing while the engine is open, and every await of a
\* compaction in progress is resumed
SpecSweep ==
  /\ Init
  /\ [][NextSweep]_vars
  /\ WF_vars(Sweep)
  /\ WF_vars(CompactWrite \/ CompactRename \/ CompactMerge \/ CompactRetire)

(***************************************************************************)
(* C34: the sweep selects only eligible blocks. A block whose staleBytes   *)
(* is below maxBlockSize * staleDataThreshold is never compacted by the    *)
(* sweep; and while the engine stays open, every unlocked block whose      *)
(* staleBytes has reached that threshold is eventually compacted (it       *)
(* leaves the registry), as long as the explored number of calls and of    *)
(* compactions is not used up.                                             *)
(***************************************************************************)
Eligible(b) ==
  b.staleBytes * 10 >= MaxBlockSize * StaleDataThresholdTenths
SweepStarts(i) ==
  /\ i \in DOMAIN blocks
  /\ ~blocks[i].locked
  /\ compaction.phase = "idle" /\ compaction'.phase = "write"
  /\ compaction'.page = blocks[i].bid
BlockIds == 1..(MaxOps + 2)
Horizon == opCount = MaxOps \/ compaction.runs = MaxCompactions

C34_SweepSelectsEligible ==
  /\ [][\A i \in DOMAIN blocks : SweepStarts(i) => Eligible(blocks[i])]_vars
  /\ \A b \in BlockIds :
       (/\ opened
        /\ \E i \in DOMAIN blocks :
             blocks[i].bid = b /\ ~blocks[i].locked /\ Eligible(blocks[i]))
         ~> (~opened \/ b \notin RegistryBids \/ Horizon)

\* the sweep has started the compaction of a block with no stale byte
C34_Witness ==
  /\ opened
  /\ compaction.phase = "write"
  /\ \E i \in DOMAIN blocks :
       /\ blocks[i].bid = compaction.page
       /\ blocks[i].locked
       /\ blocks[i].staleBytes = 0
       /\ blocks[i].size * 10 > MaxBlockSize * StaleDataThresholdTenths

(***************************************************************************)
(* C35: a block is never compacted by two compactions at once. A call of   *)
(* compactPage on a block whose locked flag is true fails with an error    *)
(* and changes neither the id-map, the rid-map, the registry nor any file, *)
(* and starts no compaction; a call on an unlocked block locks it; and a   *)
(* locked block stays locked in every step until it has left the           *)
(* registry, the block under compaction being locked until then.           *)
(***************************************************************************)
IsCompactCall == opened /\ opCount' = opCount + 1 /\ last'.op = "compact"

C35_LockExcludesCompaction ==
  [][/\ IsCompactCall =>
          IF last'.bid \in LockedBids(blocks)
          THEN /\ last'.threw
               /\ UNCHANGED <<idMap, idOrder, ridMap, blocks, files,
                              compaction, nextId>>
          ELSE /\ ~last'.threw
               /\ compaction.phase = "idle"
               /\ compaction'.phase = "write"
               /\ compaction'.page = last'.bid
               /\ last'.bid \in LockedBids(blocks')
     /\ (compaction'.phase = "write" /\ compaction.phase # "write") =>
          IsCompactCall /\ compaction'.page \notin LockedBids(blocks)
     /\ \A b \in LockedBids(blocks) :
          b \in LockedBids(blocks') \/ b \notin BidsOf(blocks')
     /\ (compaction'.phase \in {"write", "rename", "merge"}
           /\ compaction'.page \in BidsOf(blocks')) =>
          compaction'.page \in LockedBids(blocks')]_vars

\* compactPage was called on the block under compaction and threw
C35_Witness ==
  /\ opened
  /\ last.op = "compact" /\ last.threw
  /\ Compacting
  /\ last.bid = compaction.page
  /\ last.bid \in LockedBids(blocks)

(***************************************************************************)
(* C36: for two mutations that append to the same block, the line of the   *)
(* earlier one (smaller _seq) precedes the line of the later one in the    *)
(* block file, also when the second is issued before the first append has  *)
(* completed; so within every block file the lines of one key are in       *)
(* increasing _seq order. Stated for the engine as first opened, before    *)
(* any reopen.                                                             *)
(***************************************************************************)
SeqOfLine(b, i) == NumField(files[b].lines[i][1], "_seq")

C36_LinesInSeqOrder ==
  nOpens = 0 =>
    \A b \in DOMAIN files :
      \A i, j \in DOMAIN files[b].lines :
        i < j => SeqOfLine(b, i) < SeqOfLine(b, j)

\* two appends to one block are queued, the second issued before the first
\* has completed, and both are then performed
C36_Witness ==
  /\ nOpens = 0 /\ syncDelay # 0
  /\ pending = <<>>
  /\ \E b \in DOMAIN files :
       /\ Len(files[b].lines) = 2
       /\ SeqOfLine(b, 1) > SeqOfLine(b, 2)
       /\ ObjGet(JsonParse(files[b].lines[1][1]), "id")
            = ObjGet(JsonParse(files[b].lines[2][1]), "id")

(***************************************************************************)
(* C37: if delete(K) is executed after the compaction of block B has       *)
(* started and before it completes, for a key K whose live entry was in B, *)
(* then after the compaction has(K) is false: the merge of the rewritten   *)
(* entries never re-inserts a key that was deleted during the compaction.  *)
(* A rewritten key that the id-map no longer holds when the merge runs was *)
(* deleted since the compaction rewrote it.                                *)
(***************************************************************************)
DeletedSinceRewrite(k) ==
  /\ k \in DOMAIN compaction.newMap.m
  /\ ~hasItem(k)

C37_MergeKeepsDeletes ==
  [][(opened /\ Compacting /\ CompactionStep) =>
       \A k \in Keys : DeletedSinceRewrite(k) => ~hasItem(k)']_vars

\* delete(K) was the last call, made after the compaction had rewritten the
\* record of K, and the merge has not run yet
C37_Witness ==
  /\ opened
  /\ compaction.phase = "merge"
  /\ last.op = "delete" /\ ~last.threw
  /\ DeletedSinceRewrite(last.id)

(***************************************************************************)
(* The engine after the recovery from a torn write: the state createDbState *)
(* returns on a directory whose block file ends with the first part of a   *)
(* record and no newline. The fragment is not read as a line; its bytes    *)
(* count in the size of the block.                                         *)
(***************************************************************************)
\* the part of a line that reached the file before the process died
TornFragment == SubSeq(DirRecord(Str("b"), Num(1), Num(2), Num(2)), 1, 2)
TornFiles ==
  {[lines |-> ls, frag |-> <<TornFragment>>, ext |-> "block"] :
     ls \in {<<>>, <<<<DirValid>>>>}}

InitTorn ==
  \E f \in TornFiles :
    LET loaded == loadBlock(1, f)
        merged == mergeBlockMaps(EmptyMap, <<loaded.map>>, 1)
        rids == BuildRidMap(merged, 1, EmptyFcn)
    IN  /\ opened = TRUE
        /\ syncDelay \in SyncDelays
        /\ idMap = merged.m
        /\ idOrder = merged.o
        /\ ridMap = rids
        /\ blocks = calculateStaleBytes(<<BlockInfo(1, FileSize(f))>>, rids)
        /\ lastUsedBid = 0
        /\ seqNo = sequenceNo(rids, "_seq")
        /\ ridNo = sequenceNo(rids, "_rid")
        /\ files = (1 :> f)
        /\ pending = <<>>
        /\ nextId = 1
        /\ compaction = NoCompaction
        /\ now = StartTime
        /\ unsynced = EmptyFcn
        /\ syncLog = EmptyFcn
        /\ diskOk = TRUE
        /\ onErrorCalls = 0
        /\ opCount = 0
        /\ nOpens = 0
        /\ last = Call("open", "", <<>>, FALSE, <<>>, <<>>, 0, FALSE)
        /\ reader = IdleReader

SpecTorn == InitTorn /\ [][Next]_vars

(***************************************************************************)
(* C38: recovery from a torn write is stable. After an open of a block     *)
(* file that ends with an unterminated fragment has succeeded, and after   *)
(* any further set and delete operations followed by close, the next open  *)
(* also succeeds and returns every record written since the recovery: on   *)
(* the synchronous path, where every line is in its file when the call     *)
(* returns, get(k) is for every key what it was at the close.              *)
(***************************************************************************)
C38_TornRecoveryStable ==
  [][(IsOpenAttempt /\ syncDelay = 0) =>
       /\ opened'
       /\ \A k \in Keys : GetView(k)' = GetView(k)]_vars

\* the engine recovered from a fragment, a set appended a line to the same
\* block, the engine was closed, and the next open has been attempted
C38_Witness ==
  /\ syncDelay = 0
  /\ nOpens = 1 /\ last.op = "open"
  /\ \E i \in DOMAIN files[1].lines :
       /\ Len(files[1].lines[i]) = 2
       /\ files[1].lines[i][1] = TornFragment
       /\ ObjGet(JsonParse(files[1].lines[i][2]), "_oid") = Num(ItemSet)

(***************************************************************************)
(* C39: a _seq value is never assigned twice in one directory, also across *)
(* a compaction followed by close and reopen: after a reopen seqNo is at   *)
(* least the largest _seq any earlier mutation received, which is the      *)
(* seqNo the engine had when it was closed, even when the lines that carry *)
(* the largest values were in a block that compaction retired to .old.     *)
(* Stated on the synchronous path, where every line is in its file when    *)
(* the call returns.                                                       *)
(***************************************************************************)
C39_SeqSurvivesCompaction ==
  [][(IsOpenAttempt /\ opened' /\ syncDelay = 0) => seqNo' >= seqNo]_vars

\* the engine was reopened after a compaction, and a retired file holds a
\* line whose _seq is greater than the seqNo of the reopened engine
C39_Witness ==
  /\ JustOpened /\ nOpens = 1 /\ syncDelay = 0
  /\ compaction.phase = "idle" /\ compaction.runs = 1
  /\ \E b \in DOMAIN files :
       /\ files[b].ext = "old"
       /\ \E i \in DOMAIN files[b].lines : SeqOfLine(b, i) > seqNo

(***************************************************************************)
(* C40: the incremental stale counters agree with the full recompute. In   *)
(* every state reachable from open by set and delete operations, each      *)
(* block's staleBytes equals the value calculateStaleBytes would assign to *)
(* it, so running the full recompute at that moment changes no staleBytes. *)
(***************************************************************************)
C40_IncrementalAgreesWithRecompute ==
  opened => blocks = calculateStaleBytes(blocks, ridMap)

\* a delete has written its tombstone to the only block: the recompute would
\* add the length of the tombstone to the staleBytes of that block
C40_Witness ==
  /\ opened /\ nOpens = 0
  /\ last.op = "delete" /\ last.had /\ ~last.threw
  /\ Len(blocks) = 1 /\ last.bid = blocks[1].bid
  /\ calculateStaleBytes(blocks, ridMap)[1].staleBytes
       = blocks[1].staleBytes + TextLength(last.text)

====
